---- MODULE Spec2Model ----
(***************************************************************************)
(* Model of the modal (Vim-flavoured) input controller of gemini-cli:      *)
(*   - the pure text-buffer reducer handleVimAction (vim-buffer-actions),  *)
(*   - the key controller useVim/handleInput (vim.ts).                     *)
(*                                                                         *)
(* Conventions.  A string is a sequence of code points; a code point is a  *)
(* TLA+ string.  Rows and columns are 0-based as in the source, so the     *)
(* code point at column c of line s is s[c + 1].  JavaScript null is       *)
(* modelled per field: preferredCol = -1, selectionAnchor = << >>,         *)
(* pendingOperator = "", pendingFind/lastFind = NoFind,                    *)
(* lastCommand = NoCommand.  A null/empty clipboard or search query is the *)
(* empty sequence (the source tests both with "!x").                       *)
(***************************************************************************)
EXTENDS Integers, Sequences, FiniteSets, TLC

(***************************************************************************)
(* Code points                                                             *)
(***************************************************************************)
\* U+0301 COMBINING ACUTE ACCENT: a combining mark (general category M).
CombAcute == "U+0301"
\* U+1F600: a code point outside the BMP; two UTF-16 code units in a JS string.
Astral == "U+1F600"
NL == "U+000A"
\* the escape key's sequence, U+001B
ESC == "U+001B"

LowerSeq == <<"a", "b", "c", "d", "e", "f", "g", "h", "i", "j", "k", "l",
   "m", "n", "o", "p", "q", "r", "s", "t", "u", "v", "w", "x", "y", "z">>
UpperSeq == <<"A", "B", "C", "D", "E", "F", "G", "H", "I", "J", "K", "L",
   "M", "N", "O", "P", "Q", "R", "S", "T", "U", "V", "W", "X", "Y", "Z">>
LowerChars == { LowerSeq[i] : i \in 1..Len(LowerSeq) }
UpperChars == { UpperSeq[i] : i \in 1..Len(UpperSeq) }
DigitChars == {"0", "1", "2", "3", "4", "5", "6", "7", "8", "9"}
SpaceChars == {" "}
CombiningMarks == {CombAcute}

Min(a, b) == IF a < b THEN a ELSE b
Max(a, b) == IF a > b THEN a ELSE b

\* char.toUpperCase() / char.toLowerCase() on one code point
toUpperCase(c) ==
  IF c \in LowerChars THEN UpperSeq[CHOOSE i \in 1..Len(LowerSeq) : LowerSeq[i] = c] ELSE c
toLowerCase(c) ==
  IF c \in UpperChars THEN LowerSeq[CHOOSE i \in 1..Len(UpperSeq) : UpperSeq[i] = c] ELSE c

\* /\s/.test(c)
isWhitespace(c) == c \in SpaceChars \cup {NL}

\* text-buffer.ts helpers: letters, digits, underscore
isWordCharStrict(c) == c \in LowerChars \cup UpperChars \cup DigitChars \cup {"_"}
isCombiningMark(c) == c \in CombiningMarks
isWordCharWithCombining(c) == isWordCharStrict(c) \/ isCombiningMark(c)

\* textUtils: a line is held as its code points already
cpLen(s) == Len(s)
toCodePoints(s) == s
\* cpSlice(s, start, end): code points [start, end)
cpSlice(s, start, end) ==
  LET a == Max(0, Min(start, Len(s)))
      b == Max(a, Min(end, Len(s)))
  IN  SubSeq(s, a + 1, b)
cpSliceFrom(s, start) == cpSlice(s, start, Len(s))

\* lines[row] || ''  and  chars[col] (undefined outside the array)
LineAt(lines, row) == IF row >= 0 /\ row < Len(lines) THEN lines[row + 1] ELSE << >>
CharAt(chars, col) == IF col >= 0 /\ col < Len(chars) THEN chars[col + 1] ELSE "undefined"

(***************************************************************************)
(* UTF-16 view of a string: String.prototype.indexOf / lastIndexOf /       *)
(* length work on code units, not code points.                             *)
(***************************************************************************)
RECURSIVE toUnits(_)
toUnits(s) ==
  IF s = << >> THEN << >>
  ELSE (IF Head(s) = Astral THEN <<"hiD83D", "loDE00">> ELSE <<Head(s)>>)
       \o toUnits(Tail(s))
jsLength(s) == Len(toUnits(s))

matchAt(u, q, i) ==
  /\ i >= 0
  /\ i + Len(q) <= Len(u)
  /\ \A k \in 1..Len(q) : u[i + k] = q[k]

\* s.indexOf(q, from): least code-unit index >= from where q occurs, or -1
indexOf(s, q, from) ==
  LET u == toUnits(s)
      qu == toUnits(q)
      f == Max(0, Min(from, Len(u)))
      hits == {i \in f..Len(u) : matchAt(u, qu, i)}
  IN  IF hits = {} THEN -1 ELSE CHOOSE i \in hits : \A j \in hits : i <= j

\* s.lastIndexOf(q, from): greatest code-unit index <= max(from, 0), or -1
lastIndexOf(s, q, from) ==
  LET u == toUnits(s)
      qu == toUnits(q)
      f == Max(0, Min(from, Len(u)))
      hits == {i \in 0..f : matchAt(u, qu, i)}
  IN  IF hits = {} THEN -1 ELSE CHOOSE i \in hits : \A j \in hits : i >= j

(***************************************************************************)
(* Text buffer state and primitives (text-buffer.ts)                       *)
(***************************************************************************)
\* undo_stack bound: overflow discards the oldest snapshot
historyLimit == 100

\* A snapshot is the whole state except the stack itself.
Snapshot(state) ==
  [lines |-> state.lines, cursorRow |-> state.cursorRow, cursorCol |-> state.cursorCol,
   preferredCol |-> state.preferredCol, selectionAnchor |-> state.selectionAnchor,
   clipboard |-> state.clipboard, lastSearchQuery |-> state.lastSearchQuery]

\* push_undo: append the pre-image to undo_stack
pushUndo(state) ==
  LET newStack == Append(state.undoStack, Snapshot(state))
  IN  [state EXCEPT !.undoStack =
         IF Len(newStack) > historyLimit THEN Tail(newStack) ELSE newStack]

\* undo: pop the latest snapshot and install it wholesale; nothing to pop, no change
undo(state) ==
  IF state.undoStack = << >> THEN state
  ELSE LET n == Len(state.undoStack)
           snap == state.undoStack[n]
       IN  [lines |-> snap.lines, cursorRow |-> snap.cursorRow, cursorCol |-> snap.cursorCol,
            preferredCol |-> snap.preferredCol, selectionAnchor |-> snap.selectionAnchor,
            clipboard |-> snap.clipboard, lastSearchQuery |-> snap.lastSearchQuery,
            undoStack |-> SubSeq(state.undoStack, 1, n - 1)]

\* text.split('\n')
RECURSIVE splitLines(_, _)
splitLines(text, cur) ==
  IF text = << >> THEN <<cur>>
  ELSE IF Head(text) = NL THEN <<cur>> \o splitLines(Tail(text), << >>)
  ELSE splitLines(Tail(text), Append(cur, Head(text)))

\* lines.join('\n')
RECURSIVE joinLines(_)
joinLines(lines) ==
  IF Len(lines) = 0 THEN << >>
  ELSE IF Len(lines) = 1 THEN lines[1]
  ELSE lines[1] \o <<NL>> \o joinLines(Tail(lines))

\* replace_range: slice [startCol, endCol) out of the line range, splice in text
\* (which may contain newlines), cursor at the end of the inserted text,
\* preferredCol cleared.  A range that is reversed or outside the buffer
\* changes nothing.
replaceRangeInternal(state, startRow, startCol, endRow, endCol, text) ==
  IF \/ startRow > endRow
     \/ (startRow = endRow /\ startCol > endCol)
     \/ startRow < 0
     \/ startCol < 0
     \/ endRow >= Len(state.lines)
     \/ endCol > cpLen(LineAt(state.lines, endRow))
  THEN state
  ELSE LET sCol == Max(0, Min(startCol, cpLen(LineAt(state.lines, startRow))))
           eCol == Max(0, Min(endCol, cpLen(LineAt(state.lines, endRow))))
           prefix == cpSlice(LineAt(state.lines, startRow), 0, sCol)
           suffix == cpSliceFrom(LineAt(state.lines, endRow), eCol)
           parts == splitLines(text, << >>)
           n == Len(parts)
           mid == IF n = 1 THEN <<prefix \o parts[1] \o suffix>>
                  ELSE <<prefix \o parts[1]>> \o SubSeq(parts, 2, n - 1)
                       \o <<parts[n] \o suffix>>
           newLines == SubSeq(state.lines, 1, startRow) \o mid
                       \o SubSeq(state.lines, endRow + 2, Len(state.lines))
           finalRow == startRow + n - 1
           finalCol == (IF n > 1 THEN 0 ELSE sCol) + cpLen(parts[n])
       IN  [state EXCEPT
              !.lines = newLines,
              !.cursorRow = Min(Max(finalRow, 0), Len(newLines) - 1),
              !.cursorCol = Max(0, Min(finalCol, cpLen(LineAt(newLines, finalRow)))),
              !.preferredCol = -1]

\* offsets (in code points, one per newline) of lineCount lines from startRow
RECURSIVE sumLens(_, _, _)
sumLens(lines, from, to) ==
  IF from > to THEN 0 ELSE cpLen(LineAt(lines, from)) + 1 + sumLens(lines, from + 1, to)

RECURSIVE rangeEnd(_, _, _, _)
rangeEnd(lines, startRow, lineCount, i) ==
  IF i >= lineCount THEN 0
  ELSE LET lineIndex == startRow + i
       IN  (IF lineIndex < Len(lines)
            THEN cpLen(lines[lineIndex + 1])
                 + (IF i < lineCount - 1 /\ lineIndex < Len(lines) - 1 THEN 1 ELSE 0)
            ELSE 0)
           + rangeEnd(lines, startRow, lineCount, i + 1)

getLineRangeOffsets(startRow, lineCount, lines) ==
  LET startOffset == sumLens(lines, 0, startRow - 1)
  IN  [startOffset |-> startOffset,
       endOffset |-> startOffset + rangeEnd(lines, startRow, lineCount, 0)]

RECURSIVE posStart(_, _, _, _)
posStart(lines, i, offset, startOffset) ==
  IF i >= Len(lines) THEN [row |-> 0, col |-> 0]
  ELSE LET lineLength == cpLen(lines[i + 1]) + 1
       IN  IF offset + lineLength > startOffset
           THEN [row |-> i, col |-> startOffset - offset]
           ELSE posStart(lines, i + 1, offset + lineLength, startOffset)

RECURSIVE posEnd(_, _, _, _)
posEnd(lines, i, offset, endOffset) ==
  IF i >= Len(lines) THEN [row |-> 0, col |-> 0]
  ELSE LET lineLength == cpLen(lines[i + 1]) + (IF i < Len(lines) - 1 THEN 1 ELSE 0)
       IN  IF offset + lineLength >= endOffset
           THEN [row |-> i, col |-> endOffset - offset]
           ELSE posEnd(lines, i + 1, offset + lineLength, endOffset)

getPositionFromOffsets(startOffset, endOffset, lines) ==
  LET s == posStart(lines, 0, 0, startOffset)
      e == posEnd(lines, 0, 0, endOffset)
  IN  [startRow |-> s.row, startCol |-> s.col, endRow |-> e.row, endCol |-> e.col]

(***************************************************************************)
(* Word boundaries (text-buffer.ts): strict word-char classification,      *)
(* crossing lines, stopping at the buffer end.  -1 / NoPos stand for null. *)
(***************************************************************************)
NoPos == [row |-> -1, col |-> -1]

\* const x = value; ...body using x...   (the value is written, and computed, once)
Bind(value, Body(_)) == Body(value)
isPunct(c) == ~isWordCharStrict(c) /\ ~isWhitespace(c)

MinOf(S) == CHOOSE i \in S : \A j \in S : i <= j
MaxOf(S) == CHOOSE i \in S : \A j \in S : i >= j

\* while (i < chars.length && P(chars[i])) i++
skipForward(chars, i, P(_)) ==
  LET stops == {j \in i..(Len(chars) - 1) : ~P(chars[j + 1])}
  IN  IF stops = {} THEN Max(i, Len(chars)) ELSE MinOf(stops)

\* while (i >= 0 && P(chars[i])) i--
skipBackward(chars, i, P(_)) ==
  LET stops == {j \in 0..i : ~P(chars[j + 1])}
  IN  IF stops = {} THEN Min(i, -1) ELSE MaxOf(stops)

findNextWordStartInLine(line, col) ==
  LET chars == toCodePoints(line)
  IN  IF col >= Len(chars) THEN -1
      ELSE LET cur == chars[col + 1]
               i1 == IF isWordCharStrict(cur)
                     THEN skipForward(chars, col, isWordCharWithCombining)
                     ELSE IF ~isWhitespace(cur) THEN skipForward(chars, col, isPunct)
                     ELSE col
               i2 == skipForward(chars, i1, isWhitespace)
           IN  IF i2 < Len(chars) THEN i2 ELSE -1

findPrevWordStartInLine(line, col) ==
  LET chars == toCodePoints(line)
  IN  IF col <= 0 THEN -1
      ELSE LET i1 == skipBackward(chars, Min(col, Len(chars)) - 1, isWhitespace)
           IN  IF i1 < 0 THEN -1
               ELSE IF isWordCharStrict(chars[i1 + 1])
                    THEN skipBackward(chars, i1, isWordCharStrict) + 1
                    ELSE skipBackward(chars, i1, isPunct) + 1

\* findWordEndInLine, in the stages of its loops
atEndOfRun(chars, col) ==
  LET n == Len(chars)
  IN  \/ /\ col < n
         /\ isWordCharWithCombining(CharAt(chars, col))
         /\ (col + 1 >= n \/ ~isWordCharWithCombining(CharAt(chars, col + 1)))
      \/ /\ col < n
         /\ ~isWordCharWithCombining(CharAt(chars, col))
         /\ ~isWhitespace(CharAt(chars, col))
         /\ (col + 1 >= n \/ isWhitespace(CharAt(chars, col + 1))
               \/ isWordCharWithCombining(CharAt(chars, col + 1)))

\* skip whitespace up to the start of the next run
skipToRun(chars, i) ==
  IF i < Len(chars) /\ ~isWordCharWithCombining(CharAt(chars, i))
  THEN skipForward(chars, i, isWhitespace) ELSE i

\* the last base character of the run that ends before runEnd
lastBaseOfRun(chars, i, runEnd, isWordRun) ==
  LET bases == IF isWordRun THEN {j \in i..(runEnd - 1) : isWordCharStrict(chars[j + 1])}
               ELSE i..(runEnd - 1)
  IN  IF bases = {} THEN -1 ELSE MaxOf(bases)

\* the end of the run that starts at i, or -1
endOfRunAt(chars, col, i) ==
  LET isWordRun == i < Len(chars) /\ isWordCharWithCombining(CharAt(chars, i))
      isPunctRun == i < Len(chars) /\ ~isWordCharWithCombining(CharAt(chars, i))
                    /\ ~isWhitespace(CharAt(chars, i))
  IN  IF isWordRun
      THEN LET e == lastBaseOfRun(chars, i, skipForward(chars, i, isWordCharWithCombining), TRUE)
           IN  IF e >= col THEN e ELSE -1
      ELSE IF isPunctRun
      THEN LET e == lastBaseOfRun(chars, i, skipForward(chars, i, isPunct), FALSE)
           IN  IF e >= col THEN e ELSE -1
      ELSE -1

findWordEndInLine(line, col) ==
  endOfRunAt(toCodePoints(line), col,
             skipToRun(toCodePoints(line),
                       IF atEndOfRun(toCodePoints(line), col)
                       THEN skipForward(toCodePoints(line), col + 1, isWhitespace)
                       ELSE col))

firstNonWhitespace(line) == skipForward(toCodePoints(line), 0, isWhitespace)

RECURSIVE nextWordInLaterLines(_, _, _)
nextWordInLaterLines(lines, row, searchForWordStart) ==
  IF row >= Len(lines) THEN NoPos
  ELSE LET line == LineAt(lines, row)
           fnw == firstNonWhitespace(line)
           hasWordsInLaterLines ==
             \E r \in (row + 1)..(Len(lines) - 1) :
               firstNonWhitespace(lines[r + 1]) < Len(lines[r + 1])
       IN  IF Len(line) = 0
           THEN IF ~hasWordsInLaterLines THEN [row |-> row, col |-> 0]
                ELSE nextWordInLaterLines(lines, row + 1, searchForWordStart)
           ELSE IF fnw < Len(line)
           THEN IF searchForWordStart THEN [row |-> row, col |-> fnw]
                ELSE Bind(findWordEndInLine(line, fnw), LAMBDA endCol :
                       IF endCol # -1 THEN [row |-> row, col |-> endCol]
                       ELSE nextWordInLaterLines(lines, row + 1, searchForWordStart))
           ELSE nextWordInLaterLines(lines, row + 1, searchForWordStart)

findNextWordAcrossLines(lines, cursorRow, cursorCol, searchForWordStart) ==
  Bind(IF searchForWordStart
       THEN findNextWordStartInLine(LineAt(lines, cursorRow), cursorCol)
       ELSE findWordEndInLine(LineAt(lines, cursorRow), cursorCol),
       LAMBDA colInCurrentLine :
         IF colInCurrentLine # -1 THEN [row |-> cursorRow, col |-> colInCurrentLine]
         ELSE nextWordInLaterLines(lines, cursorRow + 1, searchForWordStart))

RECURSIVE prevWordInEarlierLines(_, _)
prevWordInEarlierLines(lines, row) ==
  IF row < 0 THEN NoPos
  ELSE LET line == LineAt(lines, row)
           lastWordStart == skipBackward(toCodePoints(line), Len(line) - 1, isWhitespace) + 1
           wordStart == findPrevWordStartInLine(line, lastWordStart)
       IN  IF Len(line) > 0 /\ lastWordStart > 0 /\ wordStart # -1
           THEN [row |-> row, col |-> wordStart]
           ELSE prevWordInEarlierLines(lines, row - 1)

findPrevWordAcrossLines(lines, cursorRow, cursorCol) ==
  LET colInCurrentLine == findPrevWordStartInLine(LineAt(lines, cursorRow), cursorCol)
  IN  IF colInCurrentLine # -1 THEN [row |-> cursorRow, col |-> colInCurrentLine]
      ELSE prevWordInEarlierLines(lines, cursorRow - 1)

(***************************************************************************)
(* handleVimAction: one operator per case of the reducer                   *)
(***************************************************************************)
\* for-loop of vim_delete_word_forward: returns the end of the range
RECURSIVE deleteWordForwardEnd(_, _, _, _)
deleteWordForwardEnd(lines, endRow, endCol, remaining) ==
  IF remaining = 0 THEN [row |-> endRow, col |-> endCol]
  ELSE Bind(findNextWordAcrossLines(lines, endRow, endCol, TRUE), LAMBDA nextWord :
         IF nextWord # NoPos
         THEN deleteWordForwardEnd(lines, nextWord.row, nextWord.col, remaining - 1)
         ELSE Bind(findWordEndInLine(LineAt(lines, endRow), endCol), LAMBDA wordEnd :
                [row |-> endRow,
                 col |-> IF wordEnd # -1 THEN wordEnd + 1
                         ELSE cpLen(LineAt(lines, endRow))]))

vim_delete_word_forward(state, count) ==
  Bind(deleteWordForwardEnd(state.lines, state.cursorRow, state.cursorCol, count),
       LAMBDA end :
         IF end.row # state.cursorRow \/ end.col # state.cursorCol
         THEN replaceRangeInternal(pushUndo(state), state.cursorRow, state.cursorCol,
                                   end.row, end.col, << >>)
         ELSE state)

RECURSIVE wordBackwardStart(_, _, _, _)
wordBackwardStart(lines, startRow, startCol, remaining) ==
  IF remaining = 0 THEN [row |-> startRow, col |-> startCol]
  ELSE Bind(findPrevWordAcrossLines(lines, startRow, startCol), LAMBDA prevWord :
         IF prevWord # NoPos
         THEN wordBackwardStart(lines, prevWord.row, prevWord.col, remaining - 1)
         ELSE [row |-> startRow, col |-> startCol])

vim_delete_word_backward(state, count) ==
  Bind(wordBackwardStart(state.lines, state.cursorRow, state.cursorCol, count),
       LAMBDA start :
         IF start.row # state.cursorRow \/ start.col # state.cursorCol
         THEN replaceRangeInternal(pushUndo(state), start.row, start.col,
                                   state.cursorRow, state.cursorCol, << >>)
         ELSE state)

\* for-loop of vim_delete_word_end: (row, col) is the scan position, end the range end
RECURSIVE deleteWordEndEnd(_, _, _, _, _, _)
deleteWordEndEnd(lines, row, col, end, i, count) ==
  IF i >= count THEN end
  ELSE Bind(findNextWordAcrossLines(lines, row, col, FALSE), LAMBDA wordEnd :
         IF wordEnd = NoPos THEN end
         ELSE IF i < count - 1
         THEN Bind(findNextWordAcrossLines(lines, wordEnd.row, wordEnd.col + 1, TRUE),
                   LAMBDA nextWord :
                     IF nextWord # NoPos
                     THEN deleteWordEndEnd(lines, nextWord.row, nextWord.col,
                                           [row |-> wordEnd.row, col |-> wordEnd.col + 1],
                                           i + 1, count)
                     ELSE [row |-> wordEnd.row, col |-> wordEnd.col + 1])
         ELSE [row |-> wordEnd.row, col |-> wordEnd.col + 1])

\* the end column clamped to the end line
clampCol(lines, endRow, endCol) ==
  IF endRow < Len(lines) THEN Min(endCol, cpLen(LineAt(lines, endRow))) ELSE endCol

vim_delete_word_end(state, count) ==
  Bind(deleteWordEndEnd(state.lines, state.cursorRow, state.cursorCol,
                        [row |-> state.cursorRow, col |-> state.cursorCol], 0, count),
       LAMBDA end0 :
         Bind(clampCol(state.lines, end0.row, end0.col), LAMBDA endCol :
           IF end0.row # state.cursorRow \/ endCol # state.cursorCol
           THEN replaceRangeInternal(pushUndo(state), state.cursorRow, state.cursorCol,
                                     end0.row, endCol, << >>)
           ELSE state))

\* Variant of vim_delete_line that forgets the [""] placeholder when every
\* line is deleted.
vim_delete_line_leaving_none(state, count) ==
  LET linesToDelete == Min(count, Len(state.lines) - state.cursorRow)
      nextState == pushUndo(state)
      newLines == SubSeq(nextState.lines, 1, state.cursorRow)
                  \o SubSeq(nextState.lines, state.cursorRow + linesToDelete + 1,
                            Len(nextState.lines))
  IN  [nextState EXCEPT !.lines = newLines,
                         !.cursorRow = Max(0, Min(state.cursorRow, Len(newLines) - 1)),
                         !.cursorCol = 0, !.preferredCol = -1]

vim_delete_line(state, count) ==
  IF Len(state.lines) = 0 THEN state
  ELSE LET linesToDelete == Min(count, Len(state.lines) - state.cursorRow)
           totalLines == Len(state.lines)
           nextState == pushUndo(state)
           newLines == SubSeq(nextState.lines, 1, state.cursorRow)
                       \o SubSeq(nextState.lines, state.cursorRow + linesToDelete + 1,
                                 Len(nextState.lines))
       IN  IF totalLines = 1 \/ linesToDelete >= totalLines
           THEN [nextState EXCEPT !.lines = << << >> >>, !.cursorRow = 0,
                                  !.cursorCol = 0, !.preferredCol = -1]
           ELSE [nextState EXCEPT !.lines = newLines,
                                  !.cursorRow = Min(state.cursorRow, Len(newLines) - 1),
                                  !.cursorCol = 0, !.preferredCol = -1]

\* replaceRangeInternal over the offsets of lineCount lines from startRow
replaceLineRange(nextState, startRow, lineCount) ==
  LET off == getLineRangeOffsets(startRow, lineCount, nextState.lines)
      pos == getPositionFromOffsets(off.startOffset, off.endOffset, nextState.lines)
  IN  replaceRangeInternal(nextState, pos.startRow, pos.startCol, pos.endRow, pos.endCol, << >>)

vim_change_line(state, count) ==
  IF Len(state.lines) = 0 THEN state
  ELSE LET linesToChange == Min(count, Len(state.lines) - state.cursorRow)
       IN  replaceLineRange(pushUndo(state), state.cursorRow, linesToChange)

\* Variant of vim_delete_to_end_of_line that deletes without a snapshot.
vim_delete_to_end_of_line_no_push(state) ==
  LET currentLine == LineAt(state.lines, state.cursorRow)
  IN  IF state.cursorCol < cpLen(currentLine)
      THEN replaceRangeInternal(state, state.cursorRow, state.cursorCol,
                                state.cursorRow, cpLen(currentLine), << >>)
      ELSE state

vim_delete_to_end_of_line(state) ==
  LET currentLine == LineAt(state.lines, state.cursorRow)
  IN  IF state.cursorCol < cpLen(currentLine)
      THEN replaceRangeInternal(pushUndo(state), state.cursorRow, state.cursorCol,
                                state.cursorRow, cpLen(currentLine), << >>)
      ELSE state

vim_delete_to_line_start(state) ==
  IF state.cursorCol > 0
  THEN [replaceRangeInternal(pushUndo(state), state.cursorRow, 0,
                             state.cursorRow, state.cursorCol, << >>)
          EXCEPT !.cursorCol = 0]
  ELSE state

vim_change_movement(state, movement, count) ==
  LET lines == state.lines
      cursorRow == state.cursorRow
      cursorCol == state.cursorCol
      totalLines == Len(lines)
  IN  CASE movement = "h" ->
             replaceRangeInternal(pushUndo(state), cursorRow, Max(0, cursorCol - count),
                                  cursorRow, cursorCol, << >>)
        [] movement = "j" ->
             LET linesToChange == Min(count, totalLines - cursorRow)
             IN  IF linesToChange > 0
                 THEN IF totalLines = 1
                      THEN replaceRangeInternal(pushUndo(state), 0, 0, 0,
                                                cpLen(LineAt(lines, 0)), << >>)
                      ELSE replaceLineRange(pushUndo(state), cursorRow, linesToChange)
                 ELSE state
        [] movement = "k" ->
             LET upLines == Min(count, cursorRow + 1)
                 startRow == Max(0, cursorRow - count + 1)
                 linesToChange == cursorRow - startRow + 1
             IN  IF upLines > 0
                 THEN IF Len(lines) = 1
                      THEN replaceRangeInternal(pushUndo(state), 0, 0, 0,
                                                cpLen(LineAt(lines, 0)), << >>)
                      ELSE [replaceLineRange(pushUndo(state), startRow, linesToChange)
                              EXCEPT !.cursorRow = startRow, !.cursorCol = 0]
                 ELSE state
        [] movement = "l" ->
             replaceRangeInternal(pushUndo(state), cursorRow, cursorCol, cursorRow,
                                  Min(cpLen(LineAt(lines, cursorRow)), cursorCol + count), << >>)
        [] OTHER -> state

RECURSIVE moveLeftLoop(_, _, _, _)
moveLeftLoop(lines, newRow, newCol, remaining) ==
  IF remaining = 0 THEN [row |-> newRow, col |-> newCol]
  ELSE IF newCol > 0 THEN moveLeftLoop(lines, newRow, newCol - 1, remaining - 1)
  ELSE IF newRow > 0
       THEN LET prevLineLength == cpLen(LineAt(lines, newRow - 1))
            IN  moveLeftLoop(lines, newRow - 1,
                             IF prevLineLength = 0 THEN 0 ELSE prevLineLength - 1,
                             remaining - 1)
  ELSE [row |-> newRow, col |-> newCol]

\* Variant of vim_move_left that takes an undo snapshot before moving.
vim_move_left_pushing(state, count) ==
  LET p == moveLeftLoop(state.lines, state.cursorRow, state.cursorCol, count)
  IN  [pushUndo(state) EXCEPT !.cursorRow = p.row, !.cursorCol = p.col,
                               !.preferredCol = -1]

vim_move_left(state, count) ==
  LET p == moveLeftLoop(state.lines, state.cursorRow, state.cursorCol, count)
  IN  [state EXCEPT !.cursorRow = p.row, !.cursorCol = p.col, !.preferredCol = -1]

\* while (newCol < len && isCombiningMark(points[newCol]) && newCol < lineLength - 1) newCol++
RECURSIVE skipCombining(_, _)
skipCombining(points, newCol) ==
  IF newCol < Len(points) /\ isCombiningMark(CharAt(points, newCol)) /\ newCol < Len(points) - 1
  THEN skipCombining(points, newCol + 1)
  ELSE newCol

RECURSIVE moveRightLoop(_, _, _, _)
moveRightLoop(lines, newRow, newCol, remaining) ==
  IF remaining = 0 THEN [row |-> newRow, col |-> newCol]
  ELSE LET currentLine == LineAt(lines, newRow)
           lineLength == cpLen(currentLine)
       IN  IF lineLength = 0
           THEN IF newRow < Len(lines) - 1
                THEN moveRightLoop(lines, newRow + 1, 0, remaining - 1)
                ELSE moveRightLoop(lines, newRow, newCol, remaining - 1)
           ELSE IF newCol < lineLength - 1
           THEN moveRightLoop(lines, newRow,
                              skipCombining(toCodePoints(currentLine), newCol + 1),
                              remaining - 1)
           ELSE IF newRow < Len(lines) - 1
           THEN moveRightLoop(lines, newRow + 1, 0, remaining - 1)
           ELSE moveRightLoop(lines, newRow, newCol, remaining - 1)

vim_move_right(state, count) ==
  LET p == moveRightLoop(state.lines, state.cursorRow, state.cursorCol, count)
  IN  [state EXCEPT !.cursorRow = p.row, !.cursorCol = p.col, !.preferredCol = -1]

\* shared tail of vim_move_up / vim_move_down
moveVertical(state, newRow) ==
  LET targetLineLength == cpLen(LineAt(state.lines, newRow))
      newPreferredCol == IF state.preferredCol = -1 THEN state.cursorCol
                         ELSE state.preferredCol
      newCol == Min(newPreferredCol, IF targetLineLength > 0 THEN targetLineLength - 1 ELSE 0)
  IN  [state EXCEPT !.cursorRow = newRow, !.cursorCol = newCol,
                    !.preferredCol = newPreferredCol]

vim_move_up(state, count) == moveVertical(state, Max(0, state.cursorRow - count))

\* Variant of vim_move_down that forgets the requested column.
vim_move_down_forgetting_column(state, count) ==
  [moveVertical(state, Min(Len(state.lines) - 1, state.cursorRow + count))
     EXCEPT !.preferredCol = -1]

vim_move_down(state, count) ==
  moveVertical(state, Min(Len(state.lines) - 1, state.cursorRow + count))

RECURSIVE wordForwardPos(_, _, _, _)
wordForwardPos(lines, row, col, remaining) ==
  IF remaining = 0 THEN [row |-> row, col |-> col]
  ELSE Bind(findNextWordAcrossLines(lines, row, col, TRUE), LAMBDA nextWord :
         IF nextWord # NoPos
         THEN wordForwardPos(lines, nextWord.row, nextWord.col, remaining - 1)
         ELSE [row |-> row, col |-> col])

\* return { ...state, cursorRow, cursorCol, preferredCol: null }
moveTo(state, p) ==
  [state EXCEPT !.cursorRow = p.row, !.cursorCol = p.col, !.preferredCol = -1]

vim_move_word_forward(state, count) ==
  moveTo(state, wordForwardPos(state.lines, state.cursorRow, state.cursorCol, count))

vim_move_word_backward(state, count) ==
  moveTo(state, wordBackwardStart(state.lines, state.cursorRow, state.cursorCol, count))

isAtEndOfBaseWord(lineCodePoints, col) ==
  IF ~isWordCharStrict(CharAt(lineCodePoints, col)) THEN FALSE
  ELSE LET i == skipForward(lineCodePoints, col + 1, isCombiningMark)
       IN  i >= Len(lineCodePoints) \/ ~isWordCharStrict(CharAt(lineCodePoints, i))

\* the cursor stands on the last character of a word
atEndOfWord(lineCodePoints, col) ==
  /\ col < Len(lineCodePoints)
  /\ isWordCharStrict(CharAt(lineCodePoints, col))
  /\ \/ col + 1 >= Len(lineCodePoints)
     \/ ~isWordCharWithCombining(CharAt(lineCodePoints, col + 1))
     \/ isAtEndOfBaseWord(lineCodePoints, col)

RECURSIVE wordEndPos(_, _, _, _, _)
wordEndPos(lines, row, col, i, count) ==
  IF i >= count THEN [row |-> row, col |-> col]
  ELSE Bind(IF i = 0 /\ atEndOfWord(toCodePoints(LineAt(lines, row)), col)
            THEN findNextWordAcrossLines(lines, row, col + 1, FALSE)
            ELSE NoPos,
            LAMBDA nextWord :
         IF nextWord # NoPos
         THEN wordEndPos(lines, nextWord.row, nextWord.col, i + 1, count)
         ELSE Bind(findNextWordAcrossLines(lines, row, col, FALSE), LAMBDA wordEnd :
                IF wordEnd # NoPos
                THEN wordEndPos(lines, wordEnd.row, wordEnd.col, i + 1, count)
                ELSE [row |-> row, col |-> col]))

vim_move_word_end(state, count) ==
  moveTo(state, wordEndPos(state.lines, state.cursorRow, state.cursorCol, 0, count))

\* the inclusive range [anchor, cursor], ordered
selectionRange(state) ==
  LET a == state.selectionAnchor
  IN  IF a[1] < state.cursorRow \/ (a[1] = state.cursorRow /\ a[2] < state.cursorCol)
      THEN [startRow |-> a[1], startCol |-> a[2],
            endRow |-> state.cursorRow, endCol |-> state.cursorCol]
      ELSE [startRow |-> state.cursorRow, startCol |-> state.cursorCol,
            endRow |-> a[1], endCol |-> a[2]]

vim_delete_char(state, count) ==
  IF state.selectionAnchor # << >>
  THEN LET r == selectionRange(state)
       IN  [replaceRangeInternal(pushUndo(state), r.startRow, r.startCol,
                                 r.endRow, r.endCol + 1, << >>)
              EXCEPT !.selectionAnchor = << >>]
  ELSE LET lineLength == cpLen(LineAt(state.lines, state.cursorRow))
           deleteCount == Min(count, lineLength - state.cursorCol)
       IN  IF state.cursorCol < lineLength
           THEN replaceRangeInternal(pushUndo(state), state.cursorRow, state.cursorCol,
                                     state.cursorRow, state.cursorCol + deleteCount, << >>)
           ELSE state

vim_delete_char_before(state, count) ==
  IF state.cursorCol > 0
  THEN LET deleteCount == Min(count, state.cursorCol)
           startCol == state.cursorCol - deleteCount
       IN  [replaceRangeInternal(pushUndo(state), state.cursorRow, startCol,
                                 state.cursorRow, state.cursorCol, << >>)
              EXCEPT !.cursorCol = startCol]
  ELSE state

toggleChar(char) ==
  IF char = toUpperCase(char) THEN toLowerCase(char) ELSE toUpperCase(char)

vim_toggle_case(state, count) ==
  LET lineCodePoints == toCodePoints(LineAt(state.lines, state.cursorRow))
      endCol == Min(state.cursorCol + count, Len(lineCodePoints))
      newText == [i \in 1..(endCol - state.cursorCol) |->
                    toggleChar(lineCodePoints[state.cursorCol + i])]
  IN  IF state.cursorCol < Len(lineCodePoints)
      THEN [replaceRangeInternal(pushUndo(state), state.cursorRow, state.cursorCol,
                                 state.cursorRow, endCol, newText)
              EXCEPT !.cursorCol = Min(endCol, Len(lineCodePoints) - 1)]
      ELSE state

vim_insert_at_cursor(state) == state

vim_append_at_cursor(state) ==
  LET currentLine == LineAt(state.lines, state.cursorRow)
  IN  [state EXCEPT !.cursorCol = IF state.cursorCol < cpLen(currentLine)
                                  THEN state.cursorCol + 1 ELSE state.cursorCol,
                    !.preferredCol = -1]

vim_open_line_below(state) ==
  LET endOfLine == cpLen(LineAt(state.lines, state.cursorRow))
  IN  replaceRangeInternal(pushUndo(state), state.cursorRow, endOfLine,
                           state.cursorRow, endOfLine, <<NL>>)

vim_open_line_above(state) ==
  [replaceRangeInternal(pushUndo(state), state.cursorRow, 0, state.cursorRow, 0, <<NL>>)
     EXCEPT !.cursorRow = state.cursorRow, !.cursorCol = 0]

vim_append_at_line_end(state) ==
  [state EXCEPT !.cursorCol = cpLen(LineAt(state.lines, state.cursorRow)),
                !.preferredCol = -1]

vim_insert_at_line_start(state) ==
  [state EXCEPT !.cursorCol = firstNonWhitespace(LineAt(state.lines, state.cursorRow)),
                !.preferredCol = -1]

vim_move_to_line_start(state) == [state EXCEPT !.cursorCol = 0, !.preferredCol = -1]

vim_move_to_line_end(state) ==
  LET lineLength == cpLen(LineAt(state.lines, state.cursorRow))
  IN  [state EXCEPT !.cursorCol = IF lineLength > 0 THEN lineLength - 1 ELSE 0,
                    !.preferredCol = -1]

vim_move_to_first_nonwhitespace(state) ==
  [state EXCEPT !.cursorCol = firstNonWhitespace(LineAt(state.lines, state.cursorRow)),
                !.preferredCol = -1]

vim_move_to_first_line(state) ==
  [state EXCEPT !.cursorRow = 0, !.cursorCol = 0, !.preferredCol = -1]

vim_move_to_last_line(state) ==
  [state EXCEPT !.cursorRow = Len(state.lines) - 1, !.cursorCol = 0, !.preferredCol = -1]

vim_move_to_line(state, lineNumber) ==
  [state EXCEPT !.cursorRow = Min(Max(0, lineNumber - 1), Len(state.lines) - 1),
                !.cursorCol = 0, !.preferredCol = -1]

vim_escape_insert_mode(state) ==
  [state EXCEPT !.cursorCol = IF state.cursorCol > 0 THEN state.cursorCol - 1 ELSE 0,
                !.preferredCol = -1]

vim_set_selection_anchor(state) ==
  [state EXCEPT !.selectionAnchor = <<state.cursorRow, state.cursorCol>>]

vim_clear_selection(state) == [state EXCEPT !.selectionAnchor = << >>]

\* Forward search: rest of the current line, then later lines, then wrap around
\* to the lines up to the cursor.  (vim_search_next repeats the same code.)
searchForward(lines, cursorRow, cursorCol, query) ==
  LET idx == indexOf(LineAt(lines, cursorRow), query, cursorCol + 1)
      later == {i \in (cursorRow + 1)..(Len(lines) - 1) : indexOf(lines[i + 1], query, 0) # -1}
      wrap == {i \in 0..cursorRow :
                 /\ indexOf(lines[i + 1], query, 0) # -1
                 /\ (i < cursorRow \/ indexOf(lines[i + 1], query, 0) < cursorCol)}
  IN  IF idx # -1 THEN [row |-> cursorRow, col |-> idx]
      ELSE IF later # {}
           THEN [row |-> MinOf(later), col |-> indexOf(lines[MinOf(later) + 1], query, 0)]
      ELSE IF wrap # {}
           THEN [row |-> MinOf(wrap), col |-> indexOf(lines[MinOf(wrap) + 1], query, 0)]
      ELSE NoPos

\* Backward search: the current line before the cursor, then earlier lines,
\* then wrap around from the last line.
searchBackward(lines, cursorRow, cursorCol, query) ==
  LET last(i) == lastIndexOf(lines[i + 1], query, jsLength(lines[i + 1]))
      idx == lastIndexOf(LineAt(lines, cursorRow), query, cursorCol - 1)
      earlier == {i \in 0..(cursorRow - 1) : last(i) # -1}
      wrap == {i \in cursorRow..(Len(lines) - 1) :
                 last(i) # -1 /\ (i > cursorRow \/ last(i) > cursorCol)}
  IN  IF idx # -1 THEN [row |-> cursorRow, col |-> idx]
      ELSE IF earlier # {} THEN [row |-> MaxOf(earlier), col |-> last(MaxOf(earlier))]
      ELSE IF wrap # {} THEN [row |-> MaxOf(wrap), col |-> last(MaxOf(wrap))]
      ELSE NoPos

vim_search(state, query, direction) ==
  LET found == IF direction = "forward"
               THEN searchForward(state.lines, state.cursorRow, state.cursorCol, query)
               ELSE searchBackward(state.lines, state.cursorRow, state.cursorCol, query)
  IN  IF found # NoPos
      THEN [state EXCEPT !.cursorRow = found.row, !.cursorCol = found.col,
                         !.preferredCol = -1, !.lastSearchQuery = query]
      ELSE [state EXCEPT !.lastSearchQuery = query]

vim_search_next(state, direction) ==
  IF state.lastSearchQuery = << >> THEN state
  ELSE LET query == state.lastSearchQuery
           found == IF direction = "forward"
                    THEN searchForward(state.lines, state.cursorRow, state.cursorCol, query)
                    ELSE searchBackward(state.lines, state.cursorRow, state.cursorCol, query)
       IN  IF found # NoPos
           THEN [state EXCEPT !.cursorRow = found.row, !.cursorCol = found.col,
                              !.preferredCol = -1]
           ELSE state

vim_yank(state, text) == [state EXCEPT !.clipboard = text]

\* for (i = startRow + 1; i < endRow; i++) yankedText += lines[i] + '\n'
RECURSIVE middleLines(_, _, _)
middleLines(lines, i, endRow) ==
  IF i >= endRow THEN << >>
  ELSE LineAt(lines, i) \o <<NL>> \o middleLines(lines, i + 1, endRow)

vim_yank_selection(state) ==
  IF state.selectionAnchor = << >> THEN state
  ELSE LET r == selectionRange(state)
           lines == state.lines
           yankedText ==
             IF r.startRow = r.endRow
             THEN cpSlice(LineAt(lines, r.startRow), r.startCol, r.endCol + 1)
             ELSE cpSliceFrom(LineAt(lines, r.startRow), r.startCol) \o <<NL>>
                  \o middleLines(lines, r.startRow + 1, r.endRow)
                  \o cpSlice(LineAt(lines, r.endRow), 0, r.endCol + 1)
       IN  [state EXCEPT !.clipboard = yankedText]

includesNL(text) == \E i \in 1..Len(text) : text[i] = NL
endsWithNL(text) == Len(text) > 0 /\ text[Len(text)] = NL

vim_paste(state, direction) ==
  IF state.clipboard = << >> THEN state
  ELSE LET clipboard == state.clipboard
           nextState == pushUndo(state)
           currentLine == LineAt(state.lines, state.cursorRow)
           endOfLine == cpLen(currentLine)
           insertCol == Min(state.cursorCol + 1, cpLen(currentLine))
       IN  IF direction = "after"
           THEN IF includesNL(clipboard) /\ endsWithNL(clipboard)
                THEN replaceRangeInternal(nextState, state.cursorRow, endOfLine,
                                          state.cursorRow, endOfLine,
                                          <<NL>> \o SubSeq(clipboard, 1, Len(clipboard) - 1))
                ELSE replaceRangeInternal(nextState, state.cursorRow, insertCol,
                                          state.cursorRow, insertCol, clipboard)
           ELSE IF includesNL(clipboard) /\ endsWithNL(clipboard)
                THEN replaceRangeInternal(nextState, state.cursorRow, 0,
                                          state.cursorRow, 0, clipboard)
                ELSE replaceRangeInternal(nextState, state.cursorRow, state.cursorCol,
                                          state.cursorRow, state.cursorCol, clipboard)

vim_replace_char(state, char) ==
  IF state.cursorCol < cpLen(LineAt(state.lines, state.cursorRow))
  THEN replaceRangeInternal(pushUndo(state), state.cursorRow, state.cursorCol,
                            state.cursorRow, state.cursorCol + 1, char)
  ELSE state

vim_find_char(state, char, direction, type) ==
  LET currentLine == LineAt(state.lines, state.cursorRow)
      lineCodePoints == toCodePoints(currentLine)
      fwd == {i \in (state.cursorCol + 1)..(Len(lineCodePoints) - 1) :
                <<lineCodePoints[i + 1]>> = char}
      bwd == {i \in 0..Min(state.cursorCol - 1, Len(lineCodePoints) - 1) :
                <<lineCodePoints[i + 1]>> = char}
      newCol == IF direction = "forward"
                THEN (IF fwd = {} THEN -1 ELSE MinOf(fwd))
                ELSE (IF bwd = {} THEN -1 ELSE MaxOf(bwd))
      adjusted == IF type = "exclusive"
                  THEN (IF direction = "forward" THEN newCol - 1 ELSE newCol + 1)
                  ELSE newCol
      finalCol == Max(0, Min(adjusted, cpLen(currentLine) - 1))
  IN  IF newCol # -1
      THEN [state EXCEPT !.cursorCol = finalCol, !.preferredCol = -1]
      ELSE state

(***************************************************************************)
(* Matching pairs                                                          *)
(***************************************************************************)
Openers == {"(", "{", "[", "<"}
Closers == {")", "}", "]", ">"}
pairs(c) == CASE c = "(" -> ")" [] c = "{" -> "}" [] c = "[" -> "]" [] c = "<" -> ">"
reversePairs(c) == CASE c = ")" -> "(" [] c = "}" -> "{" [] c = "]" -> "[" [] c = ">" -> "<"

RECURSIVE findPairForward(_, _, _, _, _, _)
findPairForward(lines, row, col, openChar, closeChar, depth) ==
  IF row >= Len(lines) THEN NoPos
  ELSE LET chars == toCodePoints(LineAt(lines, row))
       IN  IF col >= Len(chars)
           THEN findPairForward(lines, row + 1, 0, openChar, closeChar, depth)
           ELSE IF chars[col + 1] = openChar
           THEN findPairForward(lines, row, col + 1, openChar, closeChar, depth + 1)
           ELSE IF chars[col + 1] = closeChar
           THEN IF depth = 0 THEN [row |-> row, col |-> col]
                ELSE findPairForward(lines, row, col + 1, openChar, closeChar, depth - 1)
           ELSE findPairForward(lines, row, col + 1, openChar, closeChar, depth)

RECURSIVE findPairBackward(_, _, _, _, _, _)
findPairBackward(lines, row, col, closeChar, openChar, depth) ==
  IF row < 0 THEN NoPos
  ELSE LET chars == toCodePoints(LineAt(lines, row))
       IN  IF col < 0
           THEN findPairBackward(lines, row - 1,
                                 cpLen(LineAt(lines, row - 1)) - 1, closeChar, openChar, depth)
           ELSE IF CharAt(chars, col) = closeChar
           THEN findPairBackward(lines, row, col - 1, closeChar, openChar, depth + 1)
           ELSE IF CharAt(chars, col) = openChar
           THEN IF depth = 0 THEN [row |-> row, col |-> col]
                ELSE findPairBackward(lines, row, col - 1, closeChar, openChar, depth - 1)
           ELSE findPairBackward(lines, row, col - 1, closeChar, openChar, depth)

findMatchingPair(lines, cursorRow, cursorCol) ==
  LET codePoints == toCodePoints(LineAt(lines, cursorRow))
      here == CharAt(codePoints, cursorCol)
      ahead == {i \in (cursorCol + 1)..(Len(codePoints) - 1) :
                  codePoints[i + 1] \in Openers \cup Closers}
      activeCol == IF here \notin Openers \cup Closers /\ ahead # {}
                   THEN MinOf(ahead) ELSE cursorCol
      char == CharAt(codePoints, activeCol)
  IN  IF char \in Openers
      THEN findPairForward(lines, cursorRow, activeCol + 1, char, pairs(char), 0)
      ELSE IF char \in Closers
      THEN findPairBackward(lines, cursorRow, activeCol - 1, char, reversePairs(char), 0)
      ELSE NoPos

vim_move_to_matching_pair(state) ==
  LET match == findMatchingPair(state.lines, state.cursorRow, state.cursorCol)
  IN  IF match # NoPos
      THEN [state EXCEPT !.cursorRow = match.row, !.cursorCol = match.col,
                         !.preferredCol = -1]
      ELSE state

(***************************************************************************)
(* Inner word (diw, ciw, yiw)                                              *)
(***************************************************************************)
isW(char) == isWordCharStrict(char) \/ isWordCharWithCombining(char)

\* the inclusive range [startCol, endCol] of the run around the cursor
innerWordRange(state) ==
  LET lineCodePoints == toCodePoints(LineAt(state.lines, state.cursorRow))
      n == Len(lineCodePoints)
      startCol0 == IF state.cursorCol >= n THEN n - 1 ELSE state.cursorCol
      endCol0 == state.cursorCol
      isWordChar == isW(CharAt(lineCodePoints, startCol0))
      checkType(j) == j >= 0 /\ j < n /\ (isW(lineCodePoints[j + 1]) = isWordChar)
      backStops == {j \in 0..startCol0 : j = 0 \/ ~checkType(j - 1)}
      fwdStops == {j \in endCol0..Max(endCol0, n - 1) : j >= n - 1 \/ ~checkType(j + 1)}
  IN  [startCol |-> MaxOf(backStops), endCol |-> MinOf(fwdStops)]

vim_yank_inner_word(state) ==
  LET currentLine == LineAt(state.lines, state.cursorRow)
      r == innerWordRange(state)
  IN  IF Len(currentLine) = 0 THEN state
      ELSE [state EXCEPT !.clipboard = cpSlice(currentLine, r.startCol, r.endCol + 1)]

vim_delete_inner_word(state) ==
  LET r == innerWordRange(state)
  IN  IF Len(LineAt(state.lines, state.cursorRow)) = 0 THEN state
      ELSE replaceRangeInternal(pushUndo(state), state.cursorRow, r.startCol,
                                state.cursorRow, r.endCol + 1, << >>)

(***************************************************************************)
(* handleVimAction(state, action).  An action is [type, payload]; payload  *)
(* carries the fields the case reads: count (lineNumber for               *)
(* vim_move_to_line), movement, text (char / query / text), direction,     *)
(* type.                                                                   *)
(***************************************************************************)
Payload(count, movement, text, direction, type) ==
  [count |-> count, movement |-> movement, text |-> text,
   direction |-> direction, type |-> type]
NoPayload == Payload(1, "", << >>, "", "")
Action(type, payload) == [type |-> type, payload |-> payload]
Counted(type, count) == Action(type, Payload(count, "", << >>, "", ""))

handleVimAction(state, action) ==
  LET t == action.type
      p == action.payload
  IN  CASE t \in {"vim_delete_word_forward", "vim_change_word_forward"} ->
             vim_delete_word_forward(state, p.count)
        [] t \in {"vim_delete_word_backward", "vim_change_word_backward"} ->
             vim_delete_word_backward(state, p.count)
        [] t \in {"vim_delete_word_end", "vim_change_word_end"} ->
             vim_delete_word_end(state, p.count)
        [] t = "vim_delete_line" -> vim_delete_line(state, p.count)
        [] t = "vim_change_line" -> vim_change_line(state, p.count)
        [] t \in {"vim_delete_to_end_of_line", "vim_change_to_end_of_line"} ->
             vim_delete_to_end_of_line(state)
        [] t = "vim_delete_to_line_start" -> vim_delete_to_line_start(state)
        [] t = "vim_change_movement" -> vim_change_movement(state, p.movement, p.count)
        [] t = "vim_move_left" -> vim_move_left(state, p.count)
        [] t = "vim_move_right" -> vim_move_right(state, p.count)
        [] t = "vim_move_up" -> vim_move_up(state, p.count)
        [] t = "vim_move_down" -> vim_move_down(state, p.count)
        [] t = "vim_move_word_forward" -> vim_move_word_forward(state, p.count)
        [] t = "vim_move_word_backward" -> vim_move_word_backward(state, p.count)
        [] t = "vim_move_word_end" -> vim_move_word_end(state, p.count)
        [] t = "vim_delete_char" -> vim_delete_char(state, p.count)
        [] t = "vim_delete_char_before" -> vim_delete_char_before(state, p.count)
        [] t = "vim_toggle_case" -> vim_toggle_case(state, p.count)
        [] t = "vim_insert_at_cursor" -> vim_insert_at_cursor(state)
        [] t = "vim_append_at_cursor" -> vim_append_at_cursor(state)
        [] t = "vim_open_line_below" -> vim_open_line_below(state)
        [] t = "vim_open_line_above" -> vim_open_line_above(state)
        [] t = "vim_append_at_line_end" -> vim_append_at_line_end(state)
        [] t = "vim_insert_at_line_start" -> vim_insert_at_line_start(state)
        [] t = "vim_move_to_line_start" -> vim_move_to_line_start(state)
        [] t = "vim_move_to_line_end" -> vim_move_to_line_end(state)
        [] t = "vim_move_to_first_nonwhitespace" -> vim_move_to_first_nonwhitespace(state)
        [] t = "vim_move_to_first_line" -> vim_move_to_first_line(state)
        [] t = "vim_move_to_last_line" -> vim_move_to_last_line(state)
        [] t = "vim_move_to_line" -> vim_move_to_line(state, p.count)
        [] t = "vim_escape_insert_mode" -> vim_escape_insert_mode(state)
        [] t = "vim_set_selection_anchor" -> vim_set_selection_anchor(state)
        [] t = "vim_clear_selection" -> vim_clear_selection(state)
        [] t = "vim_search" -> vim_search(state, p.text, p.direction)
        [] t = "vim_search_next" -> vim_search_next(state, p.direction)
        [] t = "vim_yank" -> vim_yank(state, p.text)
        [] t = "vim_yank_selection" -> vim_yank_selection(state)
        [] t = "vim_paste" -> vim_paste(state, p.direction)
        [] t = "vim_replace_char" -> vim_replace_char(state, p.text)
        [] t = "vim_find_char" -> vim_find_char(state, p.text, p.direction, p.type)
        [] t = "vim_move_to_matching_pair" -> vim_move_to_matching_pair(state)
        [] t \in {"vim_delete_inner_word", "vim_change_inner_word"} ->
             vim_delete_inner_word(state)
        [] t = "vim_yank_inner_word" -> vim_yank_inner_word(state)
        [] OTHER -> state

MotionTypes ==
  {"vim_move_left", "vim_move_right", "vim_move_up", "vim_move_down",
   "vim_move_word_forward", "vim_move_word_backward", "vim_move_word_end",
   "vim_move_to_line_start", "vim_move_to_line_end", "vim_move_to_first_nonwhitespace",
   "vim_move_to_first_line", "vim_move_to_last_line", "vim_move_to_line",
   "vim_move_to_matching_pair", "vim_find_char", "vim_search", "vim_search_next"}

MutationTypes ==
  {"vim_delete_word_forward", "vim_delete_word_backward", "vim_delete_word_end",
   "vim_change_word_forward", "vim_change_word_backward", "vim_change_word_end",
   "vim_delete_line", "vim_change_line", "vim_delete_to_end_of_line",
   "vim_change_to_end_of_line", "vim_delete_to_line_start", "vim_change_movement",
   "vim_delete_char", "vim_delete_char_before", "vim_toggle_case",
   "vim_open_line_below", "vim_open_line_above", "vim_paste", "vim_replace_char",
   "vim_delete_inner_word", "vim_change_inner_word"}

(***************************************************************************)
(* State                                                                   *)
(***************************************************************************)
(***************************************************************************)
(* The vim input controller (vim.ts).  A key is {name, sequence, ctrl,     *)
(* meta}; the sequence is a string of code points.  null is encoded as ""  *)
(* for pendingOperator and pendingChord, as NoFind for pendingFind and     *)
(* lastFind, and as NoCommand for lastCommand.                             *)
(***************************************************************************)
CR == "U+000D"
DEL == "U+007F"
TAB == "U+0009"
CtrlChars == {ESC, CR, DEL, TAB, NL, "U+0018", "U+0005", "U+0017", "U+0015",
              "U+0012", "U+0016"}

KeyChar(c) == [name |-> c, sequence |-> <<c>>, ctrl |-> FALSE, meta |-> FALSE]
KeyNamed(n, seq) == [name |-> n, sequence |-> seq, ctrl |-> FALSE, meta |-> FALSE]
KeyCtrl(n, seq) == [name |-> n, sequence |-> seq, ctrl |-> TRUE, meta |-> FALSE]

NoFind == [char |-> << >>, direction |-> "", type |-> ""]
NoCommand == [type |-> "", count |-> 0]
DIGIT_MULTIPLIER == 10
DEFAULT_COUNT == 1

initialVimState ==
  [mode |-> "NORMAL", commandBuffer |-> << >>, count |-> 0, pendingOperator |-> "",
   pendingChord |-> "", pendingReplace |-> FALSE, pendingInner |-> FALSE,
   pendingFind |-> NoFind, lastFind |-> NoFind, lastCommand |-> NoCommand]

\* What a handler works with: `state` as the render that created the handler
\* saw it (the fields the handler reads), and live, the reducer's state, which
\* every dispatch goes to.  A handler created by the latest render sees the
\* live state.
closure(seen, live) ==
  [mode |-> seen.mode, commandBuffer |-> seen.commandBuffer, count |-> seen.count,
   pendingOperator |-> seen.pendingOperator, pendingChord |-> seen.pendingChord,
   pendingReplace |-> seen.pendingReplace, pendingInner |-> seen.pendingInner,
   pendingFind |-> seen.pendingFind, lastFind |-> seen.lastFind,
   lastCommand |-> seen.lastCommand, live |-> live]

\* dispatch of an action that sets one field (SET_MODE, SET_COMMAND_BUFFER,
\* SET_PENDING_CHORD, SET_PENDING_REPLACE, SET_PENDING_INNER, SET_PENDING_FIND,
\* SET_LAST_FIND)
set(v, field, value) == [v EXCEPT !.live[field] = value]

\* CLEAR_PENDING_STATES and ESCAPE_TO_NORMAL: { ...state, ...createClearPendingState() }
createClearPendingState(v) ==
  [v EXCEPT !.live = [@ EXCEPT !.count = 0, !.pendingOperator = "", !.pendingChord = "",
                               !.pendingReplace = FALSE, !.pendingInner = FALSE,
                               !.pendingFind = NoFind, !.lastFind = NoFind]]

\* the remaining cases of vimReducer
SET_COUNT(v, n) == set(v, "count", n)
INCREMENT_COUNT(v, digit) == set(v, "count", v.live.count * DIGIT_MULTIPLIER + digit)
SET_PENDING_OPERATOR(v, op) == set(v, "pendingOperator", op)
SET_LAST_COMMAND(v, type, n) == set(v, "lastCommand", [type |-> type, count |-> n])

updateMode(v, mode) ==
  IF mode # "COMMAND" THEN set(set(v, "mode", mode), "commandBuffer", << >>)
  ELSE set(v, "mode", mode)

getCurrentCount(v) == IF v.count = 0 THEN DEFAULT_COUNT ELSE v.count

\* What the handling of one key does: the controller state after its
\* dispatches, the calls it makes on the buffer in their order, the value
\* handleInput returns, and the calls made on the submit and editor ports.
Res(v, ops, handled) ==
  [vim |-> v.live, ops |-> ops, handled |-> handled, submitted |-> << >>, editor |-> FALSE]

\* buffer.vimX(...): one call on the buffer, an action for its reducer
call(type, payload) == <<Action(type, payload)>>

\* buffer.text = lines.join('\n')
bufferText(b) == joinLines(b.lines)

\* buffer.setText(''): the buffer is cleared to one empty line
setTextEmpty(b) ==
  [pushUndo(b) EXCEPT !.lines = << << >> >>, !.cursorRow = 0, !.cursorCol = 0,
                      !.preferredCol = -1]

\* buffer.handleInput(key): the buffer's own text-insert path.  A printable
\* key inserts its sequence at the cursor, backspace deletes the code point
\* before the cursor, any other key leaves the text as it is.
bufferHandleInput(b, key) ==
  IF key.name = "backspace"
  THEN IF b.cursorCol > 0
       THEN replaceRangeInternal(pushUndo(b), b.cursorRow, b.cursorCol - 1,
                                 b.cursorRow, b.cursorCol, << >>)
       ELSE IF b.cursorRow > 0
       THEN replaceRangeInternal(pushUndo(b), b.cursorRow - 1,
                                 cpLen(LineAt(b.lines, b.cursorRow - 1)),
                                 b.cursorRow, 0, << >>)
       ELSE b
  ELSE IF ~key.ctrl /\ ~key.meta /\ Len(key.sequence) = 1
          /\ key.sequence[1] \notin CtrlChars
  THEN replaceRangeInternal(pushUndo(b), b.cursorRow, b.cursorCol,
                            b.cursorRow, b.cursorCol, key.sequence)
  ELSE b

executeCommand(v, cmdType, count) ==
  CASE cmdType = "dw" -> [vim |-> v, ops |-> call("vim_delete_word_forward", Payload(count, "", << >>, "", ""))]
    [] cmdType = "db" -> [vim |-> v, ops |-> call("vim_delete_word_backward", Payload(count, "", << >>, "", ""))]
    [] cmdType = "de" -> [vim |-> v, ops |-> call("vim_delete_word_end", Payload(count, "", << >>, "", ""))]
    [] cmdType = "cw" -> [vim |-> updateMode(v, "INSERT"),
                          ops |-> call("vim_change_word_forward", Payload(count, "", << >>, "", ""))]
    [] cmdType = "cb" -> [vim |-> updateMode(v, "INSERT"),
                          ops |-> call("vim_change_word_backward", Payload(count, "", << >>, "", ""))]
    [] cmdType = "ce" -> [vim |-> updateMode(v, "INSERT"),
                          ops |-> call("vim_change_word_end", Payload(count, "", << >>, "", ""))]
    [] cmdType = "x" -> [vim |-> v, ops |-> call("vim_delete_char", Payload(count, "", << >>, "", ""))]
    [] cmdType = "dd" -> [vim |-> v, ops |-> call("vim_delete_line", Payload(count, "", << >>, "", ""))]
    [] cmdType = "cc" -> [vim |-> updateMode(v, "INSERT"),
                          ops |-> call("vim_change_line", Payload(count, "", << >>, "", ""))]
    [] cmdType \in {"ch", "cj", "ck", "cl"} ->
         LET movementType == [ch |-> "h", cj |-> "j", ck |-> "k", cl |-> "l"][cmdType]
         IN  [vim |-> updateMode(v, "INSERT"),
              ops |-> call("vim_change_movement", Payload(count, movementType, << >>, "", ""))]
    [] cmdType = "D" -> [vim |-> v, ops |-> call("vim_delete_to_end_of_line", NoPayload)]
    [] cmdType = "C" -> [vim |-> updateMode(v, "INSERT"),
                         ops |-> call("vim_change_to_end_of_line", NoPayload)]
    [] OTHER -> [vim |-> v, ops |-> << >>]

\* Variant of handleCommandModeInput whose backspace trims the buffer down
\* to nothing without leaving COMMAND mode.
handleCommandModeInput_trimming_to_empty(v, key) ==
  IF key.name = "escape" THEN Res(updateMode(v, "NORMAL"), << >>, TRUE)
  ELSE IF key.name = "return"
  THEN LET cmd == v.commandBuffer
           query == cpSliceFrom(cmd, 1)
       IN  IF Len(cmd) > 0 /\ cmd[1] \in {"/", "?"} /\ query # << >>
           THEN Res(updateMode(v, "NORMAL"),
                    call("vim_search",
                         Payload(1, "", query,
                                 IF cmd[1] = "/" THEN "forward" ELSE "backward", "")),
                    TRUE)
           ELSE Res(updateMode(v, "NORMAL"), << >>, TRUE)
  ELSE IF key.name = "backspace"
  THEN Res(set(v, "commandBuffer",
               SubSeq(v.commandBuffer, 1, Len(v.commandBuffer) - 1)),
           << >>, TRUE)
  ELSE IF Len(key.sequence) = 1
  THEN Res(set(v, "commandBuffer", v.commandBuffer \o key.sequence), << >>, TRUE)
  ELSE Res(v, << >>, TRUE)

handleCommandModeInput(v, key) ==
  IF key.name = "escape" THEN Res(updateMode(v, "NORMAL"), << >>, TRUE)
  ELSE IF key.name = "return"
  THEN LET cmd == v.commandBuffer
           query == cpSliceFrom(cmd, 1)
       IN  IF Len(cmd) > 0 /\ cmd[1] \in {"/", "?"} /\ query # << >>
           THEN Res(updateMode(v, "NORMAL"),
                    call("vim_search",
                         Payload(1, "", query,
                                 IF cmd[1] = "/" THEN "forward" ELSE "backward", "")),
                    TRUE)
           ELSE Res(updateMode(v, "NORMAL"), << >>, TRUE)
  ELSE IF key.name = "backspace"
  THEN IF Len(v.commandBuffer) <= 1
       THEN Res(updateMode(v, "NORMAL"), << >>, TRUE)
       ELSE Res(set(v, "commandBuffer",
                    SubSeq(v.commandBuffer, 1, Len(v.commandBuffer) - 1)),
                << >>, TRUE)
  ELSE IF Len(key.sequence) = 1
  THEN Res(set(v, "commandBuffer", v.commandBuffer \o key.sequence), << >>, TRUE)
  ELSE Res(v, << >>, TRUE)

\* buffer.text.trim() is non-empty
hasNonBlank(b) ==
  \E r \in 1..Len(b.lines) : \E c \in 1..Len(b.lines[r]) : ~isWhitespace(b.lines[r][c])

handleInsertModeInput(v, b, settings, key) ==
  IF key.name = "escape"
  THEN Res(updateMode(createClearPendingState(v), "NORMAL"),
           call("vim_escape_insert_mode", NoPayload), TRUE)
  ELSE IF key.ctrl /\ key.name = "w"
  THEN Res(v, call("vim_delete_word_backward", NoPayload), TRUE)
  ELSE IF key.ctrl /\ key.name = "u"
  THEN Res(v, call("vim_delete_to_line_start", NoPayload), TRUE)
  ELSE IF \/ key.name = "tab"
          \/ (key.name = "return" /\ ~key.ctrl)
          \/ key.name = "up"
          \/ key.name = "down"
          \/ (key.ctrl /\ key.name = "r")
  THEN Res(v, << >>, FALSE)
  ELSE IF key.ctrl /\ key.name = "v" THEN Res(v, << >>, FALSE)
  ELSE IF key.sequence = <<"!">> /\ bufferText(b) = << >> THEN Res(v, << >>, FALSE)
  ELSE IF key.name = "return" /\ ~key.ctrl /\ ~key.meta
  THEN IF hasNonBlank(b) /\ settings.onSubmit
       THEN [Res(v, call("setText", NoPayload), TRUE) EXCEPT !.submitted = <<bufferText(b)>>]
       ELSE Res(v, << >>, TRUE)
  ELSE Res(v, call("handleInput", key), TRUE)

handleChangeMovement(v, movement) ==
  LET count == getCurrentCount(v)
      cmdType == [h |-> "ch", j |-> "cj", k |-> "ck", l |-> "cl"][movement]
      v1 == updateMode(SET_COUNT(v, 0), "INSERT")
  IN  Res(SET_PENDING_OPERATOR(SET_LAST_COMMAND(v1, cmdType, count), ""),
          call("vim_change_movement", Payload(count, movement, << >>, "", "")),
          TRUE)

handleOperatorMotion(v, operator, motion) ==
  LET count == getCurrentCount(v)
      commandMap == [d |-> [w |-> "dw", b |-> "db", e |-> "de"],
                     c |-> [w |-> "cw", b |-> "cb", e |-> "ce"]]
      cmdType == commandMap[operator][motion]
      x == executeCommand(v, cmdType, count)
  IN  Res(SET_PENDING_OPERATOR(SET_COUNT(SET_LAST_COMMAND(x.vim, cmdType, count), 0), ""),
          x.ops, TRUE)

parseInt(d) ==
  CASE d = "0" -> 0 [] d = "1" -> 1 [] d = "2" -> 2 [] d = "3" -> 3 [] d = "4" -> 4
    [] d = "5" -> 5 [] d = "6" -> 6 [] d = "7" -> 7 [] d = "8" -> 8 [] d = "9" -> 9

\* Variant of yieldsToHistory that looks at the mode and operator only.
yieldsToHistory_in_any_style(v, settings) ==
  v.mode = "NORMAL" /\ v.pendingOperator = ""

\* the guard of j, k and G: in readline style the key is left to InputPrompt
yieldsToHistory(v, settings) ==
  settings.vimModeStyle = "bash-vim" /\ v.mode = "NORMAL" /\ v.pendingOperator = ""

\* the switch on normalizedKey.sequence in NORMAL, VISUAL and VISUAL_LINE
normalModeCommand(v, b, settings, key) ==
  LET s == IF Len(key.sequence) = 1 THEN key.sequence[1] ELSE ""
      repeatCount == getCurrentCount(v)
      visual == v.mode \in {"VISUAL", "VISUAL_LINE"}
      bash == yieldsToHistory(v, settings)
      motion(type) == Res(SET_COUNT(v, 0), call(type, Payload(repeatCount, "", << >>, "", "")), TRUE)
      plain(type) == Res(SET_COUNT(v, 0), call(type, NoPayload), TRUE)
      insert(type) == Res(SET_COUNT(updateMode(v, "INSERT"), 0), call(type, NoPayload), TRUE)
      deleteSelection(mode) ==
        Res(SET_COUNT(updateMode(v, mode), 0),
            call("vim_yank_selection", NoPayload) \o call("vim_delete_char", NoPayload),
            TRUE)
  IN
  CASE s = "v" ->
         IF v.mode = "NORMAL"
         THEN Res(SET_COUNT(updateMode(v, "VISUAL"), 0),
                  call("vim_set_selection_anchor", NoPayload), TRUE)
         ELSE IF v.mode = "VISUAL"
         THEN Res(SET_COUNT(updateMode(v, "NORMAL"), 0),
                  call("vim_clear_selection", NoPayload), TRUE)
         ELSE Res(SET_COUNT(updateMode(v, "VISUAL"), 0), << >>, TRUE)
    [] s = "V" ->
         IF v.mode = "NORMAL"
         THEN Res(SET_COUNT(updateMode(v, "VISUAL_LINE"), 0),
                  call("vim_set_selection_anchor", NoPayload), TRUE)
         ELSE IF v.mode = "VISUAL_LINE"
         THEN Res(SET_COUNT(updateMode(v, "NORMAL"), 0),
                  call("vim_clear_selection", NoPayload), TRUE)
         ELSE Res(SET_COUNT(updateMode(v, "VISUAL_LINE"), 0), << >>, TRUE)
    [] s = "h" -> IF v.pendingOperator = "c" THEN handleChangeMovement(v, "h")
                  ELSE motion("vim_move_left")
    [] s = "j" -> IF bash THEN Res(v, << >>, FALSE)
                  ELSE IF v.pendingOperator = "c" THEN handleChangeMovement(v, "j")
                  ELSE motion("vim_move_down")
    [] s = "k" -> IF bash THEN Res(v, << >>, FALSE)
                  ELSE IF v.pendingOperator = "c" THEN handleChangeMovement(v, "k")
                  ELSE motion("vim_move_up")
    [] s = "l" -> IF v.pendingOperator = "c" THEN handleChangeMovement(v, "l")
                  ELSE motion("vim_move_right")
    [] s = "w" ->
         IF v.pendingInner /\ v.pendingOperator = "d"
         THEN Res(createClearPendingState(v),
                  call("vim_delete_inner_word", Payload(repeatCount, "", << >>, "", "")), TRUE)
         ELSE IF v.pendingInner /\ v.pendingOperator = "c"
         THEN Res(createClearPendingState(updateMode(v, "INSERT")),
                  call("vim_change_inner_word", Payload(repeatCount, "", << >>, "", "")), TRUE)
         ELSE IF v.pendingInner /\ v.pendingOperator = "y"
         THEN Res(createClearPendingState(v),
                  call("vim_yank_inner_word", Payload(repeatCount, "", << >>, "", "")), TRUE)
         ELSE IF v.pendingOperator \in {"d", "c"}
         THEN handleOperatorMotion(v, v.pendingOperator, "w")
         ELSE motion("vim_move_word_forward")
    [] s = "b" -> IF v.pendingOperator \in {"d", "c"}
                  THEN handleOperatorMotion(v, v.pendingOperator, "b")
                  ELSE motion("vim_move_word_backward")
    [] s = "e" -> IF v.pendingOperator \in {"d", "c"}
                  THEN handleOperatorMotion(v, v.pendingOperator, "e")
                  ELSE motion("vim_move_word_end")
    [] s = "X" -> motion("vim_delete_char_before")
    [] s = "x" ->
         IF visual THEN deleteSelection("NORMAL")
         ELSE Res(SET_COUNT(SET_LAST_COMMAND(v, "x", repeatCount), 0),
                  call("vim_delete_char", Payload(repeatCount, "", << >>, "", "")), TRUE)
    [] s = "~" -> motion("vim_toggle_case")
    [] s = "i" -> IF v.pendingOperator # ""
                  THEN Res(set(v, "pendingInner", TRUE), << >>, TRUE)
                  ELSE insert("vim_insert_at_cursor")
    [] s = "a" -> insert("vim_append_at_cursor")
    [] s = "o" -> insert("vim_open_line_below")
    [] s = "O" -> insert("vim_open_line_above")
    [] s \in {"0", "|"} -> plain("vim_move_to_line_start")
    [] s = "$" -> plain("vim_move_to_line_end")
    [] s = "^" -> plain("vim_move_to_first_nonwhitespace")
    [] s = "%" -> plain("vim_move_to_matching_pair")
    [] s = "g" ->
         IF v.pendingOperator = "g"
         THEN Res(SET_COUNT(SET_PENDING_OPERATOR(v, ""), 0),
                  call("vim_move_to_first_line", NoPayload), TRUE)
         ELSE Res(SET_COUNT(SET_PENDING_OPERATOR(v, "g"), 0), << >>, TRUE)
    [] s = "G" ->
         IF bash THEN Res(v, << >>, FALSE)
         ELSE IF v.count > 0
         THEN Res(SET_COUNT(v, 0), call("vim_move_to_line", Payload(v.count, "", << >>, "", "")), TRUE)
         ELSE plain("vim_move_to_last_line")
    [] s = "I" -> insert("vim_insert_at_line_start")
    [] s = "A" -> insert("vim_append_at_line_end")
    [] s = "n" -> Res(SET_COUNT(v, 0),
                      call("vim_search_next", Payload(1, "", << >>, "forward", "")), TRUE)
    [] s = "N" -> Res(SET_COUNT(v, 0),
                      call("vim_search_next", Payload(1, "", << >>, "backward", "")), TRUE)
    [] s = "d" ->
         IF visual THEN deleteSelection("NORMAL")
         ELSE IF v.pendingOperator = "d"
         THEN LET x == executeCommand(v, "dd", repeatCount)
              IN  Res(SET_PENDING_OPERATOR(
                        SET_COUNT(SET_LAST_COMMAND(x.vim, "dd", repeatCount), 0), ""),
                      x.ops, TRUE)
         ELSE Res(SET_PENDING_OPERATOR(v, "d"), << >>, TRUE)
    [] s = "c" ->
         IF visual THEN deleteSelection("INSERT")
         ELSE IF v.pendingOperator = "c"
         THEN LET x == executeCommand(v, "cc", repeatCount)
              IN  Res(SET_PENDING_OPERATOR(
                        SET_COUNT(SET_LAST_COMMAND(x.vim, "cc", repeatCount), 0), ""),
                      x.ops, TRUE)
         ELSE Res(SET_PENDING_OPERATOR(v, "c"), << >>, TRUE)
    [] s = "D" ->
         LET x == executeCommand(v, "D", 1)
         IN  Res(SET_COUNT(SET_LAST_COMMAND(x.vim, "D", 1), 0), x.ops, TRUE)
    [] s = "C" ->
         LET x == executeCommand(v, "C", 1)
         IN  Res(SET_COUNT(SET_LAST_COMMAND(x.vim, "C", 1), 0), x.ops, TRUE)
    [] s = "y" ->
         IF visual
         THEN Res(SET_COUNT(updateMode(v, "NORMAL"), 0),
                  call("vim_yank_selection", NoPayload) \o call("vim_clear_selection", NoPayload),
                  TRUE)
         ELSE IF v.pendingOperator = "y"
         THEN Res(SET_PENDING_OPERATOR(SET_COUNT(v, 0), ""),
                  call("vim_yank",
                       Payload(1, "", LineAt(b.lines, b.cursorRow) \o <<NL>>, "", "")),
                  TRUE)
         ELSE Res(SET_PENDING_OPERATOR(v, "y"), << >>, TRUE)
    [] s = "p" -> Res(SET_COUNT(v, 0), call("vim_paste", Payload(1, "", << >>, "after", "")), TRUE)
    [] s = "P" -> Res(SET_COUNT(v, 0), call("vim_paste", Payload(1, "", << >>, "before", "")), TRUE)
    [] s = "u" -> Res(SET_COUNT(v, 0), call("undo", NoPayload), TRUE)
    [] s = "r" -> Res(SET_COUNT(set(v, "pendingReplace", TRUE), 0), << >>, TRUE)
    [] s \in {"f", "F", "t", "T"} ->
         Res(SET_COUNT(set(v, "pendingFind",
                           [char |-> << >>,
                            direction |-> IF s \in {"f", "t"} THEN "forward" ELSE "backward",
                            type |-> IF s \in {"f", "F"} THEN "inclusive" ELSE "exclusive"]),
                       0),
             << >>, TRUE)
    [] s = ";" ->
         IF v.lastFind # NoFind
         THEN Res(SET_COUNT(v, 0),
                  call("vim_find_char",
                       Payload(1, "", v.lastFind.char, v.lastFind.direction, v.lastFind.type)),
                  TRUE)
         ELSE Res(v, << >>, FALSE)
    [] s = "," ->
         IF v.lastFind # NoFind
         THEN Res(SET_COUNT(v, 0),
                  call("vim_find_char",
                       Payload(1, "", v.lastFind.char,
                               IF v.lastFind.direction = "forward" THEN "backward"
                               ELSE "forward",
                               v.lastFind.type)),
                  TRUE)
         ELSE Res(v, << >>, FALSE)
    [] s = "." ->
         IF v.lastCommand # NoCommand
         THEN LET x == executeCommand(v, v.lastCommand.type, v.lastCommand.count)
              IN  Res(SET_COUNT(x.vim, 0), x.ops, TRUE)
         ELSE Res(SET_COUNT(v, 0), << >>, TRUE)
    [] OTHER ->
         IF key.name \in {"left", "down", "up", "right"}
         THEN LET movement == [left |-> "h", down |-> "j", up |-> "k", right |-> "l"][key.name]
                  type == [left |-> "vim_move_left", down |-> "vim_move_down",
                           up |-> "vim_move_up", right |-> "vim_move_right"][key.name]
              IN  IF v.pendingOperator = "c" THEN handleChangeMovement(v, movement)
                  ELSE motion(type)
         ELSE Res(createClearPendingState(v), << >>, TRUE)

\* Variant of pendingReplaceKey that leaves the flag set.
pendingReplaceKey_keeping_flag(v, key) ==
  Res(SET_LAST_COMMAND(SET_COUNT(v, 0), "r", 1),
      call("vim_replace_char", Payload(1, "", key.sequence, "", "")), TRUE)

\* if (state.pendingReplace) { ... }: the key is the replacement character
pendingReplaceKey(v, key) ==
  Res(SET_LAST_COMMAND(SET_COUNT(set(v, "pendingReplace", FALSE), 0), "r", 1),
      call("vim_replace_char", Payload(1, "", key.sequence, "", "")), TRUE)

\* if (state.pendingFind) { ... }: the key is the character to find
pendingFindKey(v, key) ==
  Res(SET_COUNT(set(set(v, "pendingFind", NoFind), "lastFind",
                    [char |-> key.sequence,
                     direction |-> v.pendingFind.direction,
                     type |-> v.pendingFind.type]), 0),
      call("vim_find_char",
           Payload(1, "", key.sequence, v.pendingFind.direction, v.pendingFind.type)),
      TRUE)

\* Variant of pendingChordKey that hands a key other than Ctrl+E on.
pendingChordKey_forwarding(v, key) ==
  IF key.ctrl /\ key.name = "e"
  THEN [Res(createClearPendingState(v), << >>, TRUE) EXCEPT !.editor = TRUE]
  ELSE Res(createClearPendingState(v), << >>, FALSE)

\* if (state.pendingChord === 'ctrl+x') { ... }: Ctrl+E opens the external
\* editor, any other key is swallowed
pendingChordKey(v, key) ==
  [Res(createClearPendingState(v), << >>, TRUE)
     EXCEPT !.editor = (key.ctrl /\ key.name = "e")]

\* Variant of commandModeKey that looks at disableVimCommandMode before the
\* style.
commandModeKey_disabled_first(v, settings, key) ==
  IF settings.disableVimCommandMode
  THEN Res(updateMode(v, "INSERT"), call("handleInput", key), TRUE)
  ELSE IF settings.vimModeStyle = "bash-vim" /\ key.sequence \in {<<"/">>, <<"?">>}
  THEN Res(v, << >>, FALSE)
  ELSE Res(set(updateMode(v, "COMMAND"), "commandBuffer", key.sequence), << >>, TRUE)

\* Handle transitions to COMMAND mode: ':', '/' or '?' typed in NORMAL mode
commandModeKey(v, settings, key) ==
  IF settings.vimModeStyle = "bash-vim" /\ key.sequence \in {<<"/">>, <<"?">>}
  THEN Res(v, << >>, FALSE)
  ELSE IF settings.disableVimCommandMode
  THEN Res(updateMode(v, "INSERT"), call("handleInput", key), TRUE)
  ELSE Res(set(updateMode(v, "COMMAND"), "commandBuffer", key.sequence), << >>, TRUE)

\* the body of handleInput: what the key does, as dispatches and buffer calls
handleInputBody(v, b, settings, key) ==
  IF v.pendingReplace THEN pendingReplaceKey(v, key)
  ELSE IF v.pendingFind # NoFind THEN pendingFindKey(v, key)
  ELSE IF v.pendingChord = "ctrl+x" THEN pendingChordKey(v, key)
  ELSE IF key.ctrl /\ key.name = "x"
  THEN Res(set(v, "pendingChord", "ctrl+x"), << >>, TRUE)
  ELSE IF v.mode = "INSERT" THEN handleInsertModeInput(v, b, settings, key)
  ELSE IF v.mode = "COMMAND" THEN handleCommandModeInput(v, key)
  ELSE IF key.name = "escape"
  THEN IF v.mode \in {"VISUAL", "VISUAL_LINE"}
       THEN Res(createClearPendingState(updateMode(v, "NORMAL")),
                call("vim_clear_selection", NoPayload), TRUE)
       ELSE IF v.pendingOperator # ""
       THEN Res(createClearPendingState(v), << >>, TRUE)
       ELSE Res(v, << >>, FALSE)
  ELSE IF v.mode = "NORMAL" /\ key.sequence \in {<<":">>, <<"/">>, <<"?">>}
  THEN commandModeKey(v, settings, key)
  ELSE IF Len(key.sequence) = 1
          /\ (key.sequence[1] \in {"1", "2", "3", "4", "5", "6", "7", "8", "9"}
              \/ (key.sequence[1] = "0" /\ v.count > 0))
  THEN Res(INCREMENT_COUNT(v, parseInt(key.sequence[1])), << >>, TRUE)
  ELSE normalModeCommand(v, b, settings, key)

\* one call on the buffer: a vim action goes to the buffer's reducer
bufferCall(b, op) ==
  CASE op.type = "undo" -> undo(b)
    [] op.type = "setText" -> setTextEmpty(b)
    [] op.type = "handleInput" -> bufferHandleInput(b, op.payload)
    [] OTHER -> handleVimAction(b, op)

RECURSIVE bufferCalls(_, _)
bufferCalls(b, ops) ==
  IF ops = << >> THEN b ELSE bufferCalls(bufferCall(b, Head(ops)), Tail(ops))

\* handleInput(key) of the handler created by a render that saw the state
\* seen, called when the reducer's state is live: the controller state, the
\* buffer and the ports after the key
handleInputSeen(seen, live, b, settings, key) ==
  Bind(handleInputBody(closure(seen, live), b, settings, key), LAMBDA r :
    [vim |-> r.vim, buf |-> bufferCalls(b, r.ops), handled |-> r.handled,
     submitted |-> r.submitted, editor |-> r.editor])

\* handleInput(key) of the handler of the latest render
handleInput(v, b, settings, key) == handleInputSeen(v, v, b, settings, key)

(***************************************************************************)
(* History navigator (useInputHistory).  The hook's state and props are    *)
(* one record h: historyIndex and originalQueryBeforeNav are its state,    *)
(* userMessages, isActive and currentQuery its props; emitted and          *)
(* submitted are the texts given so far to onChange and to onSubmit, and   *)
(* returned is the value of the last navigation call.  Calls are handled   *)
(* one per render, so each sees the state the previous one committed.      *)
(***************************************************************************)
\* value.trim()
RECURSIVE trimStart(_)
trimStart(t) ==
  IF t # << >> /\ isWhitespace(Head(t)) THEN trimStart(Tail(t)) ELSE t
RECURSIVE trimEnd(_)
trimEnd(t) ==
  IF t # << >> /\ isWhitespace(t[Len(t)]) THEN trimEnd(SubSeq(t, 1, Len(t) - 1)) ELSE t
trim(t) == trimEnd(trimStart(t))

initialHistory(userMessages, isActive, currentQuery) ==
  [historyIndex |-> -1, originalQueryBeforeNav |-> << >>,
   userMessages |-> userMessages, isActive |-> isActive,
   currentQuery |-> currentQuery,
   emitted |-> << >>, submitted |-> << >>, returned |-> FALSE]

\* userMessages[userMessages.length - 1 - index]
messageAt(h, index) == h.userMessages[Len(h.userMessages) - index]

\* onChange(text): the parent puts the text in the input, and the input's
\* text is the currentQuery of the next render
onChange(h, text) ==
  [h EXCEPT !.emitted = Append(@, text), !.currentQuery = text]

\* onSubmit(trimmedValue): "Parent handles clearing the query"
onSubmit(h, text) ==
  [h EXCEPT !.submitted = Append(@, text), !.currentQuery = << >>]

returning(h, value) == [h EXCEPT !.returned = value]

resetHistoryNav(h) ==
  [h EXCEPT !.historyIndex = -1, !.originalQueryBeforeNav = << >>]

\* Variant of handleSubmit that submits the value as typed, untrimmed.
handleSubmit_untrimmed(h, value) ==
  IF value # << >>
  THEN resetHistoryNav(onSubmit(h, value))
  ELSE resetHistoryNav(h)

handleSubmit(h, value) ==
  IF trim(value) # << >>
  THEN resetHistoryNav(onSubmit(h, trim(value)))
  ELSE resetHistoryNav(h)

\* Variant of navigateUp without the isActive gate.
navigateUp_when_inactive(h) ==
  IF Len(h.userMessages) = 0 THEN returning(h, FALSE)
  ELSE IF h.historyIndex = -1
  THEN returning(onChange([h EXCEPT !.originalQueryBeforeNav = h.currentQuery,
                                    !.historyIndex = 0],
                          messageAt(h, 0)), TRUE)
  ELSE IF h.historyIndex < Len(h.userMessages) - 1
  THEN returning(onChange([h EXCEPT !.historyIndex = h.historyIndex + 1],
                          messageAt(h, h.historyIndex + 1)), TRUE)
  ELSE returning(h, FALSE)

navigateUp(h) ==
  IF ~h.isActive THEN returning(h, FALSE)
  ELSE IF Len(h.userMessages) = 0 THEN returning(h, FALSE)
  ELSE IF h.historyIndex = -1
  THEN returning(onChange([h EXCEPT !.originalQueryBeforeNav = h.currentQuery,
                                    !.historyIndex = 0],
                          messageAt(h, 0)), TRUE)
  ELSE IF h.historyIndex < Len(h.userMessages) - 1
  THEN returning(onChange([h EXCEPT !.historyIndex = h.historyIndex + 1],
                          messageAt(h, h.historyIndex + 1)), TRUE)
  ELSE returning(h, FALSE)

\* Variant of navigateDown that gives back the current query, not the
\* captured one, when it reaches -1.
navigateDown_keeping_query(h) ==
  IF ~h.isActive THEN returning(h, FALSE)
  ELSE IF h.historyIndex = -1 THEN returning(h, FALSE)
  ELSE IF h.historyIndex - 1 = -1
  THEN returning(onChange([h EXCEPT !.historyIndex = -1], h.currentQuery), TRUE)
  ELSE returning(onChange([h EXCEPT !.historyIndex = h.historyIndex - 1],
                          messageAt(h, h.historyIndex - 1)), TRUE)

navigateDown(h) ==
  IF ~h.isActive THEN returning(h, FALSE)
  ELSE IF h.historyIndex = -1 THEN returning(h, FALSE)
  ELSE IF h.historyIndex - 1 = -1
  THEN returning(onChange([h EXCEPT !.historyIndex = -1],
                          h.originalQueryBeforeNav), TRUE)
  ELSE returning(onChange([h EXCEPT !.historyIndex = h.historyIndex - 1],
                          messageAt(h, h.historyIndex - 1)), TRUE)

\* Variant of goToIndex that captures the query on every jump to a message.
goToIndex_recapturing(h, index) ==
  IF ~h.isActive THEN returning(h, FALSE)
  ELSE IF Len(h.userMessages) = 0 /\ index # -1 THEN returning(h, FALSE)
  ELSE LET targetIndex == Max(-1, Min(index, Len(h.userMessages) - 1))
           captured == IF targetIndex # -1
                       THEN h.currentQuery ELSE h.originalQueryBeforeNav
           next == [h EXCEPT !.originalQueryBeforeNav = captured,
                             !.historyIndex = targetIndex]
       IN  IF targetIndex = -1
           THEN returning(onChange(next, h.originalQueryBeforeNav), TRUE)
           ELSE returning(onChange(next, messageAt(h, targetIndex)), TRUE)

\* Variant of goToIndex that clamps the index into [-1, len - 2].
goToIndex_clamping_short(h, index) ==
  IF ~h.isActive THEN returning(h, FALSE)
  ELSE IF Len(h.userMessages) = 0 /\ index # -1 THEN returning(h, FALSE)
  ELSE LET targetIndex == Max(-1, Min(index, Len(h.userMessages) - 2))
           captured == IF h.historyIndex = -1 /\ targetIndex # -1
                       THEN h.currentQuery ELSE h.originalQueryBeforeNav
           next == [h EXCEPT !.originalQueryBeforeNav = captured,
                             !.historyIndex = targetIndex]
       IN  IF targetIndex = -1
           THEN returning(onChange(next, h.originalQueryBeforeNav), TRUE)
           ELSE returning(onChange(next, messageAt(h, targetIndex)), TRUE)

goToIndex(h, index) ==
  IF ~h.isActive THEN returning(h, FALSE)
  ELSE IF Len(h.userMessages) = 0 /\ index # -1 THEN returning(h, FALSE)
  ELSE LET targetIndex == Max(-1, Min(index, Len(h.userMessages) - 1))
           captured == IF h.historyIndex = -1 /\ targetIndex # -1
                       THEN h.currentQuery ELSE h.originalQueryBeforeNav
           next == [h EXCEPT !.originalQueryBeforeNav = captured,
                             !.historyIndex = targetIndex]
       IN  IF targetIndex = -1
           \* the callback reads the originalQueryBeforeNav of its render
           THEN returning(onChange(next, h.originalQueryBeforeNav), TRUE)
           ELSE returning(onChange(next, messageAt(h, targetIndex)), TRUE)

(***************************************************************************)
(* awaitConfirmation (scheduler/confirmation.ts).  One call is a waiter w: *)
(* the state of its promise, whether its onResponse is subscribed on the   *)
(* message bus, whether its onAbort is registered on its signal, and the   *)
(* signal's aborted flag.  settleCalls counts the calls of resolve and     *)
(* reject; the promise keeps the first.  subscribeCalls counts the calls   *)
(* of messageBus.subscribe.  An absent outcome, payload or error is "".    *)
(***************************************************************************)
OperationCancelled == "Operation cancelled"
SubscribeError == "Subscribe failed"

initialWaiter ==
  [status |-> "idle", aborted |-> FALSE, busListener |-> FALSE,
   abortListener |-> FALSE, outcome |-> "", payload |-> "", error |-> "",
   settleCalls |-> 0, subscribeCalls |-> 0]

\* resolve(value) / reject(error) of the promise: only the first call settles it
resolve(w, outcome, payload) ==
  IF w.status = "pending"
  THEN [w EXCEPT !.status = "resolved", !.outcome = outcome, !.payload = payload,
                 !.settleCalls = @ + 1]
  ELSE [w EXCEPT !.settleCalls = @ + 1]

reject(w, error) ==
  IF w.status = "pending"
  THEN [w EXCEPT !.status = "rejected", !.error = error, !.settleCalls = @ + 1]
  ELSE [w EXCEPT !.settleCalls = @ + 1]

\* messageBus.unsubscribe(TOOL_CONFIRMATION_RESPONSE, onResponse);
\* signal.removeEventListener('abort', onAbort)
\* Variant of cleanup that leaves the abort listener on the signal.
cleanup_bus_only(w) == [w EXCEPT !.busListener = FALSE]

cleanup(w) == [w EXCEPT !.busListener = FALSE, !.abortListener = FALSE]

\* Variant of onAbort that rejects without unsubscribing.
onAbort_keeping_subscription(w) == reject(w, OperationCancelled)

onAbort(w) == reject(cleanup(w), OperationCancelled)

\* Variant of outcomeOf that reads only the legacy confirmed flag.
outcomeOf_legacy(msg) == IF msg.confirmed THEN "ProceedOnce" ELSE "Cancel"

\* msg.outcome ?? (msg.confirmed ? ProceedOnce : Cancel)
outcomeOf(msg) ==
  IF msg.outcome # "" THEN msg.outcome
  ELSE IF msg.confirmed THEN "ProceedOnce" ELSE "Cancel"

\* Variant of onResponse that does not compare the correlationId.
onResponse_any_id(w, correlationId, msg) ==
  resolve(cleanup(w), outcomeOf(msg), msg.payload)

onResponse(w, correlationId, msg) ==
  IF msg.correlationId = correlationId
  THEN resolve(cleanup(w), outcomeOf(msg), msg.payload)
  ELSE w

\* Variant of awaitConfirmation that subscribes before it looks at the signal.
awaitConfirmation_subscribing_first(w, subscribeThrows) ==
  IF subscribeThrows
  THEN reject(cleanup([w EXCEPT !.status = "pending", !.subscribeCalls = @ + 1]),
              SubscribeError)
  ELSE IF w.aborted
  THEN reject([w EXCEPT !.status = "pending", !.subscribeCalls = @ + 1,
                        !.busListener = TRUE],
              OperationCancelled)
  ELSE [w EXCEPT !.status = "pending", !.subscribeCalls = @ + 1,
                 !.busListener = TRUE, !.abortListener = TRUE]

\* the call itself; subscribeThrows is whether messageBus.subscribe throws
awaitConfirmation(w, subscribeThrows) ==
  IF w.aborted
  THEN reject([w EXCEPT !.status = "pending"], OperationCancelled)
  ELSE IF subscribeThrows
  THEN reject(cleanup([w EXCEPT !.status = "pending", !.subscribeCalls = @ + 1]),
              SubscribeError)
  ELSE [w EXCEPT !.status = "pending", !.subscribeCalls = @ + 1,
                 !.busListener = TRUE, !.abortListener = TRUE]

\* the signal's controller aborts: the flag is set and the 'abort' listeners run
abortSignal(w) ==
  IF w.aborted THEN w
  ELSE IF w.abortListener THEN onAbort([w EXCEPT !.aborted = TRUE])
  ELSE [w EXCEPT !.aborted = TRUE]

\* messageBus.publish(msg) as seen by one waiter: its listener runs if subscribed
deliver(w, correlationId, msg) ==
  IF w.busListener THEN onResponse(w, correlationId, msg) ELSE w

(***************************************************************************)
(* A2AClientManager (part_001).  loadAgent is an async method: it runs up  *)
(* to the await of client.getAgentCard(), other calls may run while it is  *)
(* suspended, and it resumes when the fetch settles.  A client is named    *)
(* after the call that constructed it; an absent client or card is "".     *)
(***************************************************************************)
AgentNames == {"alpha", "beta"}
Callers == {"call1", "call2", "call3"}
AlreadyLoaded == "already loaded"
FetchFailed == "fetch failed"
NotFound == "not found"

idleCall == [pc |-> "idle", name |-> "", error |-> ""]

initialManager ==
  [clients |-> [n \in AgentNames |-> ""],
   agentCards |-> [n \in AgentNames |-> ""],
   calls |-> [p \in Callers |-> idleCall],
   sent |-> [name |-> "", client |-> "", error |-> ""]]

\* this.clients.has(name)
has(m, name) == m.clients[name] # ""

\* loadAgent up to its await: the duplicate check, then new A2AClient(url,
\* options) and the start of client.getAgentCard()
loadAgent(m, p, name) ==
  IF has(m, name)
  THEN [m EXCEPT !.calls[p] = [pc |-> "thrown", name |-> name, error |-> AlreadyLoaded]]
  ELSE [m EXCEPT !.calls[p] = [pc |-> "fetching", name |-> name, error |-> ""]]

\* loadAgent after its await: getAgentCard() resolved, the client and the
\* card are cached and the card is returned
loadAgentResumed(m, p) ==
  LET name == m.calls[p].name
  IN  [m EXCEPT !.clients[name] = p, !.agentCards[name] = p,
                !.calls[p].pc = "returned"]

\* loadAgent after its await: getAgentCard() rejected, the error propagates
loadAgentRejected(m, p) ==
  [m EXCEPT !.calls[p].pc = "thrown", !.calls[p].error = FetchFailed]

\* sendMessage(agentName, message): through the cached client, or an error
sendMessage(m, agentName) ==
  IF m.clients[agentName] = ""
  THEN [m EXCEPT !.sent = [name |-> agentName, client |-> "", error |-> NotFound]]
  ELSE [m EXCEPT !.sent = [name |-> agentName, client |-> m.clients[agentName],
                           error |-> ""]]

VARIABLES
  buf,      \* TextBufferState: lines, cursorRow, cursorCol, preferredCol,
            \* selectionAnchor, clipboard, lastSearchQuery, undoStack
  vim,      \* VimState of the controller's reducer
  settings, \* vimModeStyle, disableVimCommandMode, and whether onSubmit is given
  out,      \* what the last key produced: handled, submit calls, editor call
  steps,    \* number of operations applied so far (bounds the exploration)
  hist,     \* the history navigator: its state, props and port calls
  conf,     \* the awaitConfirmation waiters, by correlationId
  seen,     \* the controller state as the render that made handleInput saw it
  agents    \* the A2AClientManager: its two maps and the calls in flight

vars == <<buf, vim, settings, out, steps, hist, conf, seen, agents>>

\* Bounds of the exploration
MaxSteps == 2
MaxCount == 2
MaxKeys == 3
MaxCalls == 6
MaxEvents == 5

\* Starting texts: the host may construct the buffer with any text and cursor.
InitTexts ==
  { << << >> >>,
    << <<"a", "B", " ", "c">> >>,
    << <<"(", "a">>, << >>, <<"b", ")">> >>,
    << <<"a", CombAcute>> >>,
    << <<Astral, Astral, "x">> >>,
    << <<"a">>, <<"x", "a">> >> }

BufferOf(lines, row, col) ==
  [lines |-> lines, cursorRow |-> row, cursorCol |-> col, preferredCol |-> -1,
   selectionAnchor |-> << >>, clipboard |-> << >>, lastSearchQuery |-> << >>,
   undoStack |-> << >>]

InitBuffers ==
  UNION { { BufferOf(t, r, c) : r \in 0..(Len(t) - 1), c \in 0..3 } : t \in InitTexts }

ValidCursor(b) ==
  /\ b.cursorRow >= 0
  /\ b.cursorRow < Len(b.lines)
  /\ b.cursorCol >= 0
  /\ b.cursorCol <= cpLen(b.lines[b.cursorRow + 1])

(***************************************************************************)
(* Reducer-level specification: any sequence of handleVimAction calls and  *)
(* undo on a constructed buffer.                                           *)
(***************************************************************************)
Counts == 1..MaxCount
FindChars == {<<"a">>}
Queries == {<<"x">>, <<"a">>}
YankTexts == { <<"z">>, <<"z", NL>>, <<"q", NL, "z">> }
ReplaceChars == { <<"z">> }
Directions == {"forward", "backward"}

MotionActions ==
  { Counted(t, n) : t \in {"vim_move_left", "vim_move_right", "vim_move_up",
                           "vim_move_down", "vim_move_word_forward",
                           "vim_move_word_backward", "vim_move_word_end"},
                    n \in Counts }
  \cup { Counted("vim_move_to_line", n) : n \in 1..(MaxCount + 1) }
  \cup { Action(t, NoPayload) : t \in {"vim_move_to_line_start", "vim_move_to_line_end",
                                        "vim_move_to_first_nonwhitespace",
                                        "vim_move_to_first_line", "vim_move_to_last_line",
                                        "vim_move_to_matching_pair"} }
  \cup { Action("vim_find_char", Payload(1, "", c, d, ty)) :
           c \in FindChars, d \in Directions, ty \in {"inclusive", "exclusive"} }
  \cup { Action("vim_search", Payload(1, "", q, d, "")) : q \in Queries, d \in Directions }
  \cup { Action("vim_search_next", Payload(1, "", << >>, d, "")) : d \in Directions }

\* The vim_change_* types that share a case with their vim_delete_* twin
\* (word forward/backward/end, to end of line, inner word) run the same code
\* and are not listed a second time.
MutationActions ==
  { Counted(t, n) : t \in {"vim_delete_word_forward", "vim_delete_word_backward",
                           "vim_delete_word_end", "vim_delete_line", "vim_change_line",
                           "vim_delete_char", "vim_delete_char_before", "vim_toggle_case"},
                    n \in Counts }
  \cup { Action("vim_change_movement", Payload(n, m, << >>, "", "")) :
           n \in Counts, m \in {"h", "j", "k", "l"} }
  \cup { Action(t, NoPayload) : t \in {"vim_delete_to_end_of_line",
                                        "vim_delete_to_line_start", "vim_open_line_below",
                                        "vim_open_line_above", "vim_delete_inner_word"} }
  \cup { Action("vim_paste", Payload(1, "", << >>, d, "")) : d \in {"before", "after"} }
  \cup { Action("vim_replace_char", Payload(1, "", c, "", "")) : c \in ReplaceChars }

YankActions ==
  { Action("vim_yank", Payload(1, "", t, "", "")) : t \in YankTexts }
  \cup { Action("vim_yank_selection", NoPayload), Action("vim_yank_inner_word", NoPayload) }

CursorActions ==
  { Action(t, NoPayload) : t \in {"vim_insert_at_cursor", "vim_append_at_cursor",
                                   "vim_append_at_line_end", "vim_insert_at_line_start",
                                   "vim_escape_insert_mode", "vim_set_selection_anchor",
                                   "vim_clear_selection"} }

NoOut == [handled |-> FALSE, submitted |-> << >>, editor |-> FALSE]
DefaultSettings ==
  [vimModeStyle |-> "vim-editor", disableVimCommandMode |-> FALSE, onSubmit |-> TRUE]

\* the history navigator and the confirmation waiters while they are not in use
NoHistory == initialHistory(<< >>, FALSE, << >>)
CorrelationIds == {"c1", "c2"}
NoWaiters == [c \in CorrelationIds |-> initialWaiter]

InitReducer ==
  /\ buf \in {b \in InitBuffers : ValidCursor(b)}
  /\ vim = initialVimState
  /\ settings = DefaultSettings
  /\ out = NoOut
  /\ steps = 0
  /\ hist = NoHistory
  /\ conf = NoWaiters
  /\ seen = initialVimState
  /\ agents = initialManager

\* a motion verb
Motion ==
  /\ steps < MaxSteps
  /\ \E a \in MotionActions : buf' = handleVimAction(buf, a)
  /\ steps' = steps + 1
  /\ UNCHANGED <<vim, settings, out, hist, conf, seen, agents>>

\* a mutation verb
Mutation ==
  /\ steps < MaxSteps
  /\ \E a \in MutationActions : buf' = handleVimAction(buf, a)
  /\ steps' = steps + 1
  /\ UNCHANGED <<vim, settings, out, hist, conf, seen, agents>>

\* vim_yank, vim_yank_selection, vim_yank_inner_word
Yank ==
  /\ steps < MaxSteps
  /\ \E a \in YankActions : buf' = handleVimAction(buf, a)
  /\ steps' = steps + 1
  /\ UNCHANGED <<vim, settings, out, hist, conf, seen, agents>>

\* cursor placement for entering/leaving INSERT, and the selection anchor
CursorOp ==
  /\ steps < MaxSteps
  /\ \E a \in CursorActions : buf' = handleVimAction(buf, a)
  /\ steps' = steps + 1
  /\ UNCHANGED <<vim, settings, out, hist, conf, seen, agents>>

Undo ==
  /\ steps < MaxSteps
  /\ buf' = undo(buf)
  /\ steps' = steps + 1
  /\ UNCHANGED <<vim, settings, out, hist, conf, seen, agents>>

NextReducer == Motion \/ Mutation \/ Yank \/ CursorOp \/ Undo

SpecReducer == InitReducer /\ [][NextReducer]_vars

(***************************************************************************)
(* Controller-level specification: any sequence of keys given to           *)
(* handleInput, starting in NORMAL mode on a constructed buffer.           *)
(***************************************************************************)
EscapeKey == KeyNamed("escape", <<ESC>>)
DigitKeys == { KeyChar(c) : c \in {"2", "0"} }
MotionKeys ==
  { KeyChar(c) : c \in {"h", "j", "k", "l", "w", "b", "e", "$", "^", "%", "|",
                        "g", "G", "n", "N"} }
ArrowKeys ==
  { KeyNamed("left", <<ESC, "[", "D">>), KeyNamed("down", <<ESC, "[", "B">>),
    KeyNamed("up", <<ESC, "[", "A">>), KeyNamed("right", <<ESC, "[", "C">>) }
OperatorKeys == { KeyChar(c) : c \in {"d", "c", "y"} }
EditKeys == { KeyChar(c) : c \in {"x", "X", "~", "D", "C", "p", "P", "r"} }
RepeatKey == KeyChar(".")
UndoKey == KeyChar("u")
InsertKeys == { KeyChar(c) : c \in {"i", "a", "o", "O", "I", "A"} }
VisualKeys == { KeyChar(c) : c \in {"v", "V"} }
CommandKeys == { KeyChar(c) : c \in {":", "/", "?"} }
FindKeys == { KeyChar(c) : c \in {"f", "F", "t", "T", ";", ","} }
EditingKeys ==
  { KeyNamed("return", <<CR>>), KeyNamed("backspace", <<DEL>>), KeyNamed("tab", <<TAB>>) }
CtrlKeys ==
  { KeyCtrl("x", <<"U+0018">>), KeyCtrl("e", <<"U+0005">>), KeyCtrl("w", <<"U+0017">>),
    KeyCtrl("u", <<"U+0015">>), KeyCtrl("r", <<"U+0012">>), KeyCtrl("v", <<"U+0016">>) }
OtherKeys == { KeyChar(c) : c \in {"z", "!", " "} }

Keys ==
  {EscapeKey, RepeatKey, UndoKey} \cup DigitKeys \cup MotionKeys \cup ArrowKeys
  \cup OperatorKeys \cup EditKeys \cup InsertKeys \cup VisualKeys \cup CommandKeys
  \cup FindKeys \cup EditingKeys \cup CtrlKeys \cup OtherKeys

InitSettings ==
  { DefaultSettings,
    [DefaultSettings EXCEPT !.vimModeStyle = "bash-vim"],
    [DefaultSettings EXCEPT !.disableVimCommandMode = TRUE] }

CtlBuffers ==
  { BufferOf(<< << >> >>, 0, 0),
    BufferOf(<< <<"a", "B", " ", "c">> >>, 0, 1),
    BufferOf(<< <<"(", "a">>, << >>, <<"b", ")">> >>, 1, 0) }

Init ==
  /\ buf \in CtlBuffers
  /\ vim = initialVimState
  /\ settings \in InitSettings
  /\ out = NoOut
  /\ steps = 0
  /\ hist = NoHistory
  /\ conf = NoWaiters
  /\ seen = initialVimState
  /\ agents = initialManager

OutOf(r) == [handled |-> r.handled, submitted |-> r.submitted, editor |-> r.editor]

\* one key is delivered to the handleInput of the latest render, and the
\* component renders again with the new state
PressKey ==
  /\ steps < MaxKeys
  /\ \E key \in Keys :
       Bind(handleInput(vim, buf, settings, key), LAMBDA r :
         vim' = r.vim /\ buf' = r.buf /\ out' = OutOf(r) /\ seen' = r.vim)
  /\ steps' = steps + 1
  /\ UNCHANGED <<settings, hist, conf, agents>>

Next == PressKey

Spec == Init /\ [][Next]_vars

(***************************************************************************)
(* Controller-level specification with rendering apart: a key is given to  *)
(* the handleInput that the last render created, which reads the state     *)
(* that render saw, while its dispatches go to the reducer; a render makes *)
(* a new handleInput from the reducer's state.  Whether a render comes     *)
(* between two keys is up to the host.                                     *)
(***************************************************************************)
RenderKeys ==
  { EscapeKey, KeyChar("d"), KeyChar("c"), KeyChar("w"), KeyChar("x"), KeyChar("i"),
    KeyChar("2"), KeyChar("0"), KeyChar("z") }

\* one key is delivered to the current handleInput
KeyArrives ==
  /\ steps < MaxKeys
  /\ \E key \in RenderKeys :
       Bind(handleInputSeen(seen, vim, buf, settings, key), LAMBDA r :
         vim' = r.vim /\ buf' = r.buf /\ out' = OutOf(r))
  /\ steps' = steps + 1
  /\ UNCHANGED <<settings, hist, conf, seen, agents>>

\* the component renders: handleInput is made anew from the reducer's state
Render ==
  /\ seen # vim
  /\ seen' = vim
  /\ UNCHANGED <<buf, vim, settings, out, steps, hist, conf, agents>>

NextRender == KeyArrives \/ Render

SpecRender == Init /\ [][NextRender]_vars

(***************************************************************************)
(* History specification: any sequence of calls of the hook's four         *)
(* operations, with the parent re-rendering it with other props between.   *)
(***************************************************************************)
One == <<"o", "n", "e">>
Two == <<"t", "w", "o">>
Three == <<"t", "h", "r", "e", "e">>
Draft == <<"d", "r", "a", "f", "t">>
HistoryLists == { << >>, <<One>>, <<One, Two, Three>> }
Drafts == { << >>, Draft, <<" ", "x", " ">>, <<" ">> }
Indices == (0 - 2)..3

InitHistory ==
  /\ buf = BufferOf(<< << >> >>, 0, 0)
  /\ vim = initialVimState
  /\ settings = DefaultSettings
  /\ out = NoOut
  /\ steps = 0
  /\ hist \in { initialHistory(m, a, q) : m \in HistoryLists, a \in BOOLEAN, q \in Drafts }
  /\ conf = NoWaiters
  /\ seen = initialVimState
  /\ agents = initialManager

NavigateUp ==
  /\ steps < MaxCalls
  /\ hist' = navigateUp(hist)
  /\ steps' = steps + 1
  /\ UNCHANGED <<buf, vim, settings, out, conf, seen, agents>>

NavigateDown ==
  /\ steps < MaxCalls
  /\ hist' = navigateDown(hist)
  /\ steps' = steps + 1
  /\ UNCHANGED <<buf, vim, settings, out, conf, seen, agents>>

GoToIndex ==
  /\ steps < MaxCalls
  /\ \E index \in Indices : hist' = goToIndex(hist, index)
  /\ steps' = steps + 1
  /\ UNCHANGED <<buf, vim, settings, out, conf, seen, agents>>

HandleSubmit ==
  /\ steps < MaxCalls
  /\ \E value \in Drafts : hist' = handleSubmit(hist, value)
  /\ steps' = steps + 1
  /\ UNCHANGED <<buf, vim, settings, out, conf, seen, agents>>

\* the parent renders the hook with another query (the user typed) or
\* another isActive
Rerender ==
  /\ steps < MaxCalls
  /\ \/ \E q \in Drafts : hist' = [hist EXCEPT !.currentQuery = q]
     \/ hist' = [hist EXCEPT !.isActive = ~hist.isActive]
  /\ steps' = steps + 1
  /\ UNCHANGED <<buf, vim, settings, out, conf, seen, agents>>

NextHistory == NavigateUp \/ NavigateDown \/ GoToIndex \/ HandleSubmit \/ Rerender

SpecHistory == InitHistory /\ [][NextHistory]_vars

(***************************************************************************)
(* Confirmation specification: two waiters on one message bus, each with   *)
(* its own correlationId and abort signal; calls, aborts and published     *)
(* responses in any order.                                                 *)
(***************************************************************************)
Responses ==
  [correlationId : CorrelationIds \cup {"other"},
   outcome : {"", "ProceedAlways", "Cancel"},
   confirmed : BOOLEAN,
   payload : {"", "newContent"}]

InitConfirmation ==
  /\ buf = BufferOf(<< << >> >>, 0, 0)
  /\ vim = initialVimState
  /\ settings = DefaultSettings
  /\ out = NoOut
  /\ steps = 0
  /\ hist = NoHistory
  /\ conf = NoWaiters
  /\ seen = initialVimState
  /\ agents = initialManager

\* awaitConfirmation(messageBus, c, signal) is called
Await ==
  /\ steps < MaxEvents
  /\ \E c \in CorrelationIds, subscribeThrows \in BOOLEAN :
       /\ conf[c].status = "idle"
       /\ conf' = [conf EXCEPT ![c] = awaitConfirmation(conf[c], subscribeThrows)]
  /\ steps' = steps + 1
  /\ UNCHANGED <<buf, vim, settings, out, hist, seen, agents>>

\* the controller of c's signal aborts
Abort ==
  /\ steps < MaxEvents
  /\ \E c \in CorrelationIds :
       /\ ~conf[c].aborted
       /\ conf' = [conf EXCEPT ![c] = abortSignal(conf[c])]
  /\ steps' = steps + 1
  /\ UNCHANGED <<buf, vim, settings, out, hist, seen, agents>>

\* a TOOL_CONFIRMATION_RESPONSE is published: every subscribed listener runs
Publish ==
  /\ steps < MaxEvents
  /\ \E msg \in Responses :
       conf' = [c \in CorrelationIds |-> deliver(conf[c], c, msg)]
  /\ steps' = steps + 1
  /\ UNCHANGED <<buf, vim, settings, out, hist, seen, agents>>

NextConfirmation == Await \/ Abort \/ Publish

SpecConfirmation == InitConfirmation /\ [][NextConfirmation]_vars

(***************************************************************************)
(* Claims about the reducer                                                *)
(***************************************************************************)
SameText(s, t) ==
  s.lines = t.lines /\ s.cursorRow = t.cursorRow /\ s.cursorCol = t.cursorCol

\* C1: in every state reachable by reducer actions from a buffer with at least
\* one line, lines has length >= 1; clearing all content leaves [""].
C1_LinesNonEmpty == Len(buf.lines) >= 1

\* C1 witness: a delete_line removed every line of a multi-line buffer
C1_Witness ==
  /\ buf.lines = << << >> >>
  /\ buf.undoStack # << >>
  /\ Len(buf.undoStack[Len(buf.undoStack)].lines) > 1

\* C2: in every reachable buffer state the cursor is inside the buffer:
\* 0 <= cursorRow < len(lines) and 0 <= cursorCol <= codepoint_len(line).
C2_CursorInBounds == ValidCursor(buf)

\* C6: every motion verb leaves lines, clipboard and undoStack unchanged
\* (and touches nothing but the cursor, preferredCol and lastSearchQuery).
C6_MotionFrame ==
  \A a \in MotionActions :
    LET r == handleVimAction(buf, a)
    IN  /\ r.lines = buf.lines
        /\ r.clipboard = buf.clipboard
        /\ r.undoStack = buf.undoStack
        /\ r.selectionAnchor = buf.selectionAnchor
        /\ (a.type # "vim_search" => r.lastSearchQuery = buf.lastSearchQuery)

\* C6 witness: a motion moves the cursor of a buffer that holds a clipboard
\* and an undo snapshot
C6_Witness ==
  /\ buf.clipboard # << >>
  /\ buf.undoStack # << >>
  /\ \E a \in MotionActions :
       LET r == handleVimAction(buf, a)
       IN  r.cursorRow # buf.cursorRow \/ r.cursorCol # buf.cursorCol

\* C7: a mutation verb pushes a snapshot iff it changes the text; a verb that
\* leaves lines as they were returns the state unchanged.
C7_PushIffChange ==
  \A a \in MutationActions :
    LET r == handleVimAction(buf, a)
    IN  /\ (r.undoStack # buf.undoStack) <=> (r.lines # buf.lines)
        /\ (r.lines = buf.lines => r = buf)

\* C10 (as claimed): every mutation verb followed by undo gives back the
\* state it started from, also when the verb was a no-op.
C10_UndoRestoresAlways ==
  \A a \in MutationActions : SameText(undo(handleVimAction(buf, a)), buf)

\* C10 (amended): a mutation verb that pushes a snapshot, followed by undo,
\* gives back the lines and cursor it started from; a verb that pushes
\* nothing leaves the state as it was, so undo acts on the earlier stack.
C10_UndoRestoresPushed ==
  \A a \in MutationActions :
    LET r == handleVimAction(buf, a)
    IN  IF r.undoStack # buf.undoStack
        THEN SameText(undo(r), buf)
        ELSE r = buf

\* C10 witness: a buffer with an earlier snapshot on which one mutation verb
\* changes the text and another is a no-op
C10_Witness ==
  /\ buf.undoStack # << >>
  /\ \E a \in MutationActions : handleVimAction(buf, a).lines # buf.lines
  /\ \E a \in MutationActions : handleVimAction(buf, a) = buf

(***************************************************************************)
(* Claims about the controller                                             *)
(***************************************************************************)
\* the keys of a command given to handleInput one after the other
RECURSIVE handleKeys(_, _, _, _)
handleKeys(v, b, s, keys) ==
  IF keys = << >>
  THEN [vim |-> v, buf |-> b]
  ELSE Bind(handleInput(v, b, s, Head(keys)), LAMBDA r :
         handleKeys(r.vim, r.buf, s, Tail(keys)))

PendingClear(v) ==
  /\ v.count = 0
  /\ v.pendingOperator = ""
  /\ v.pendingChord = ""
  /\ v.pendingReplace = FALSE
  /\ v.pendingInner = FALSE
  /\ v.pendingFind = NoFind

\* C3: in every state reachable by keys, the buffer's selectionAnchor is set
\* if and only if the controller mode is VISUAL or VISUAL_LINE.
C3_AnchorIffVisual ==
  (buf.selectionAnchor # << >>) <=> (vim.mode \in {"VISUAL", "VISUAL_LINE"})

\* C4: whenever the controller mode is INSERT or COMMAND, count is 0 and
\* pendingOperator, pendingChord, pendingReplace, pendingInner and pendingFind
\* are all clear.
C4_PendingClearOutsideNormal ==
  vim.mode \in {"INSERT", "COMMAND"} => PendingClear(vim)

\* C5: an Escape key received in any mode, with any pending fields set, leaves
\* every pending field cleared in the state after the key.
C5_EscapeClearsPending ==
  PendingClear(handleKeys(vim, buf, settings, <<EscapeKey>>).vim)

\* keys whose verb is a motion
C8_MotionKeys == MotionKeys \cup ArrowKeys \cup {KeyChar(";"), KeyChar(",")}

\* C8: lastCommand changes only with a key that changed the text: a key that
\* leaves lines as they were (a no-op mutation, a motion) leaves lastCommand
\* as it was.
C8_LastCommandOnlyOnChange ==
  \A key \in Keys :
    Bind(handleKeys(vim, buf, settings, <<key>>), LAMBDA r :
      /\ (r.buf.lines = buf.lines => r.vim.lastCommand = vim.lastCommand)
      /\ (key \in C8_MotionKeys /\ vim.mode # "INSERT" /\ vim.mode # "COMMAND"
            /\ ~vim.pendingReplace /\ vim.pendingOperator = ""
          => r.vim.lastCommand = vim.lastCommand))

\* the mutation commands of NORMAL mode, as the keys that enter them
C9_Commands ==
  { <<KeyChar("x")>>, <<KeyChar("X")>>, <<KeyChar("~")>>,
    <<KeyChar("r"), KeyChar("z")>>, <<KeyChar("p")>>, <<KeyChar("P")>>,
    <<KeyChar("o")>>, <<KeyChar("O")>>, <<KeyChar("D")>>, <<KeyChar("C")>>,
    <<KeyChar("d"), KeyChar("d")>>, <<KeyChar("c"), KeyChar("c")>>,
    <<KeyChar("d"), KeyChar("w")>>, <<KeyChar("d"), KeyChar("b")>>,
    <<KeyChar("d"), KeyChar("e")>>, <<KeyChar("c"), KeyChar("w")>>,
    <<KeyChar("c"), KeyChar("b")>>, <<KeyChar("c"), KeyChar("e")>>,
    <<KeyChar("c"), KeyChar("h")>>, <<KeyChar("c"), KeyChar("j")>>,
    <<KeyChar("c"), KeyChar("k")>>, <<KeyChar("c"), KeyChar("l")>>,
    <<KeyChar("d"), KeyChar("i"), KeyChar("w")>>,
    <<KeyChar("c"), KeyChar("i"), KeyChar("w")>> }

\* the state in which '.' is pressed: the controller as the command left it
\* (back in NORMAL mode), the buffer with the text and cursor the command
\* started from
C9_Restart(first, start) ==
  [vim |-> [first.vim EXCEPT !.mode = "NORMAL", !.commandBuffer = << >>],
   buf |-> [first.buf EXCEPT !.lines = start.lines, !.cursorRow = start.cursorRow,
                             !.cursorCol = start.cursorCol,
                             !.preferredCol = start.preferredCol]]

\* C9: for every mutation command of NORMAL mode that changed the text,
\* pressing '.' from the same starting text and cursor makes the same text
\* change, and a command that entered INSERT enters INSERT again.
C9_RepeatSameChange ==
  (vim.mode = "NORMAL" /\ PendingClear(vim)) =>
    \A cmd \in C9_Commands :
      Bind(handleKeys(vim, buf, settings, cmd), LAMBDA first :
        first.buf.lines # buf.lines =>
          Bind(C9_Restart(first, buf), LAMBDA again :
            Bind(handleKeys(again.vim, again.buf, settings, <<RepeatKey>>), LAMBDA second :
              /\ second.buf.lines = first.buf.lines
              /\ (first.vim.mode = "INSERT" => second.vim.mode = "INSERT"))))

(***************************************************************************)
(* Claims about the history navigator                                      *)
(***************************************************************************)
Last(seq) == seq[Len(seq)]

\* what one navigation call does to the captured draft
C11_Step ==
  /\ (hist'.originalQueryBeforeNav # hist.originalQueryBeforeNav
        => hist.historyIndex = -1 /\ hist'.historyIndex # -1)
  /\ (hist.historyIndex = -1 /\ hist'.historyIndex # -1
        => hist'.originalQueryBeforeNav = hist.currentQuery)
  /\ (hist.historyIndex # -1 /\ hist'.historyIndex = -1
        => hist'.emitted = Append(hist.emitted, hist.originalQueryBeforeNav))

\* C11: over any sequence of navigateUp, navigateDown and goToIndex calls (no
\* submit), originalQueryBeforeNav is captured only by the call that moves
\* historyIndex away from -1, where it takes the current draft, and the call
\* that brings historyIndex back to -1 emits exactly the captured text.
C11_DraftCapturedOnce ==
  [][(NavigateUp \/ NavigateDown \/ GoToIndex) => C11_Step]_vars

\* C11 witness: navigation was entered with the draft "draft", moved, and left
\* again, and the last emission is the draft
C11_Witness ==
  /\ hist.historyIndex = -1
  /\ hist.submitted = << >>
  /\ Len(hist.emitted) >= 3
  /\ hist.originalQueryBeforeNav = Draft
  /\ Last(hist.emitted) = Draft

RECURSIVE navigateUpTimes(_, _)
navigateUpTimes(h, k) == IF k = 0 THEN h ELSE navigateUpTimes(navigateUp(h), k - 1)
RECURSIVE navigateDownTimes(_, _)
navigateDownTimes(h, k) == IF k = 0 THEN h ELSE navigateDownTimes(navigateDown(h), k - 1)

\* the k most recent messages newest first, back down to the newest, then the draft
C12_Expected(h, k) ==
  [i \in 1..(2 * k) |->
     IF i <= k THEN h.userMessages[Len(h.userMessages) - (i - 1)]
     ELSE IF i < 2 * k THEN h.userMessages[Len(h.userMessages) - (2 * k - i - 1)]
     ELSE h.currentQuery]

\* C12: from historyIndex = -1 with draft d and an active navigator, for every
\* k in 1..len(userMessages), k navigateUp calls then k navigateDown calls emit
\* the k most recent messages newest to oldest, then back oldest to newest,
\* and last d, ending with historyIndex = -1.
C12_RoundTrip ==
  (hist.historyIndex = -1 /\ hist.isActive) =>
    \A k \in 1..Len(hist.userMessages) :
      LET r == navigateDownTimes(navigateUpTimes(hist, k), k)
      IN  /\ r.emitted = hist.emitted \o C12_Expected(hist, k)
          /\ r.historyIndex = -1

\* C12 witness: three up, three down over ["one", "two", "three"] with draft
\* "draft" have run
C12_Witness ==
  /\ hist.emitted = <<Three, Two, One, Two, Three, Draft>>
  /\ hist.historyIndex = -1

\* C13: navigateUp returns false and changes nothing when the navigator is
\* inactive or there are no messages; at historyIndex = -1 it captures the
\* current draft and sets historyIndex to 0; otherwise it increments
\* historyIndex, never beyond len - 1; historyIndex is always in [-1, len - 1].
C13_NavigateUp ==
  /\ hist.historyIndex \in (0 - 1)..(Len(hist.userMessages) - 1)
  /\ LET r == navigateUp(hist)
     IN  IF ~hist.isActive \/ Len(hist.userMessages) = 0
         THEN r.returned = FALSE /\ [r EXCEPT !.returned = hist.returned] = hist
         ELSE IF hist.historyIndex = -1
         THEN r.originalQueryBeforeNav = hist.currentQuery /\ r.historyIndex = 0
         ELSE /\ r.historyIndex = Min(hist.historyIndex + 1, Len(hist.userMessages) - 1)
              /\ r.originalQueryBeforeNav = hist.originalQueryBeforeNav

\* C13 witness: a navigateUp at the oldest of three messages returned false
C13_Witness ==
  /\ hist.isActive
  /\ Len(hist.userMessages) = 3
  /\ hist.historyIndex = 2
  /\ Len(hist.emitted) = 3
  /\ hist.returned = FALSE

C15_Submit ==
  \A value \in Drafts :
    LET r == handleSubmit(hist, value)
    IN  /\ (r.submitted # hist.submitted) <=> (trim(value) # << >>)
        /\ (trim(value) # << >> => r.submitted = Append(hist.submitted, trim(value)))
        /\ r.historyIndex = -1
        /\ r.originalQueryBeforeNav = << >>

\* C15 witness: " x " was submitted while navigating; the port received "x"
\* and the navigation state is reset
C15_Witness ==
  /\ hist.submitted = << <<"x">> >>
  /\ hist.emitted # << >>
  /\ hist.historyIndex = -1
  /\ hist.originalQueryBeforeNav = << >>

(***************************************************************************)
(* Claims about awaitConfirmation                                          *)
(***************************************************************************)
\* C16: if the abort signal fires while the waiter is pending, the waiter
\* unsubscribes its response listener from the bus and rejects with
\* 'Operation cancelled'.
C16_AbortWhilePending ==
  \A c \in CorrelationIds :
    (conf[c].status = "pending" /\ ~conf[c].aborted) =>
      LET r == abortSignal(conf[c])
      IN  /\ r.status = "rejected"
          /\ r.error = OperationCancelled
          /\ ~r.busListener

\* C16 witness: a waiter that had subscribed was cancelled by its signal
C16_Witness ==
  \E c \in CorrelationIds :
    /\ conf[c].status = "rejected"
    /\ conf[c].error = OperationCancelled
    /\ conf[c].subscribeCalls = 1
    /\ conf[c].aborted
    /\ ~conf[c].busListener

\* C17: a pending waiter resolves only on a response whose correlationId is
\* its own: any other response leaves it pending and subscribed, the first
\* matching one unsubscribes it and resolves it with an outcome and the
\* response's payload.
C17_OnlyMatchingResolves ==
  \A c \in CorrelationIds :
    conf[c].status = "pending" =>
      /\ conf[c].busListener
      /\ \A msg \in Responses :
           LET r == deliver(conf[c], c, msg)
           IN  IF msg.correlationId = c
               THEN /\ r.status = "resolved"
                    /\ ~r.busListener
                    /\ r.outcome # ""
                    /\ r.payload = msg.payload
               ELSE r = conf[c]

\* C17 witness: a response resolved one waiter while the other, subscribed on
\* the same bus, stayed pending
C17_Witness ==
  \E c, d \in CorrelationIds :
    /\ conf[c].status = "resolved"
    /\ conf[d].status = "pending"
    /\ conf[d].busListener

\* C18: the waiter settles at most once under every interleaving of aborts
\* and responses: a matching response after cancellation and an abort after
\* resolution change nothing, and a settled waiter has neither its bus
\* listener nor its abort listener registered.
C18_SettlesOnce ==
  \A c \in CorrelationIds :
    /\ conf[c].settleCalls <= 1
    /\ (conf[c].status \in {"resolved", "rejected"} =>
          /\ ~conf[c].busListener
          /\ ~conf[c].abortListener
          /\ \A msg \in Responses : deliver(conf[c], c, msg) = conf[c]
          /\ abortSignal(conf[c]) = [conf[c] EXCEPT !.aborted = TRUE])

\* C18 witness: one waiter was cancelled after subscribing, the other's signal
\* aborted after it had resolved
C18_Witness ==
  \E c, d \in CorrelationIds :
    /\ conf[c].status = "rejected"
    /\ conf[c].subscribeCalls = 1
    /\ conf[c].error = OperationCancelled
    /\ conf[d].status = "resolved"
    /\ conf[d].aborted

\* C19: awaitConfirmation called with an already aborted signal rejects at
\* once with 'Operation cancelled' and never subscribes to the bus.
C19_AlreadyAborted ==
  \A c \in CorrelationIds :
    /\ (conf[c].status = "idle" /\ conf[c].aborted) =>
         \A subscribeThrows \in BOOLEAN :
           LET r == awaitConfirmation(conf[c], subscribeThrows)
           IN  /\ r.status = "rejected"
               /\ r.error = OperationCancelled
               /\ r.subscribeCalls = 0
               /\ ~r.busListener
    /\ (conf[c].subscribeCalls = 0 => ~conf[c].busListener)

\* C19 witness: a call on an aborted signal was rejected without subscribing
C19_Witness ==
  \E c \in CorrelationIds :
    /\ conf[c].status = "rejected"
    /\ conf[c].error = OperationCancelled
    /\ conf[c].subscribeCalls = 0

\* C20: the waiter resolves with the response's explicit outcome when there
\* is one, otherwise with ProceedOnce for confirmed = true and Cancel for
\* confirmed = false; the payload is passed through unchanged.
C20_OutcomeMapping ==
  \A c \in CorrelationIds :
    conf[c].status = "pending" =>
      \A msg \in Responses :
        msg.correlationId = c =>
          LET r == deliver(conf[c], c, msg)
          IN  /\ r.outcome = (IF msg.outcome # "" THEN msg.outcome
                              ELSE IF msg.confirmed THEN "ProceedOnce" ELSE "Cancel")
              /\ r.payload = msg.payload

\* C20 witness: one waiter resolved with an explicit outcome and a payload,
\* the other with the outcome mapped from confirmed = true
C20_Witness ==
  \E c, d \in CorrelationIds :
    /\ conf[c].status = "resolved"
    /\ conf[c].outcome = "ProceedAlways"
    /\ conf[c].payload = "newContent"
    /\ conf[d].status = "resolved"
    /\ conf[d].outcome = "ProceedOnce"

(***************************************************************************)
(* Claims about the controller's key dispatch                              *)
(***************************************************************************)
EnterKey == KeyNamed("return", <<CR>>)

\* C21: in INSERT mode with no prefix pending, a plain Enter on a buffer whose
\* trimmed text is non-empty, with an onSubmit callback present, calls
\* onSubmit with the buffer text, leaves the buffer cleared and is handled.
C21_EnterSubmits ==
  (vim.mode = "INSERT" /\ PendingClear(vim) /\ hasNonBlank(buf) /\ settings.onSubmit) =>
    Bind(handleInput(vim, buf, settings, EnterKey), LAMBDA r :
      /\ r.handled
      /\ r.submitted = <<bufferText(buf)>>
      /\ bufferText(r.buf) = << >>)

\* the keys the history navigator takes in readline style
HistoryKeys == { KeyChar("j"), KeyChar("k"), KeyChar("G") }
SearchKeys == { KeyChar("/"), KeyChar("?") }

\* no short-circuit prefix is pending: the key reaches the dispatch on mode
NoPrefix(v) == ~v.pendingReplace /\ v.pendingFind = NoFind /\ v.pendingChord = ""

\* what the claim says of one key in one state
C22_Yielded(v, b, s, key) ==
  Bind(handleInput(v, b, s, key), LAMBDA r :
    IF s.vimModeStyle = "bash-vim"
    THEN ~r.handled /\ r.buf = b /\ r.vim.mode = v.mode
    ELSE r.handled)

\* C22 as stated: in NORMAL mode with no pending operator, j, k, G, / and ?
\* are not handled in bash-vim style, move nothing and keep the mode, and are
\* handled in vim-editor style.
C22_PassThroughAlways ==
  (vim.mode = "NORMAL" /\ vim.pendingOperator = "") =>
    \A key \in HistoryKeys \cup SearchKeys : C22_Yielded(vim, buf, settings, key)

\* C22 amended: the same when no short-circuit prefix (pendingReplace,
\* pendingFind, pendingChord) is waiting for the key; / and ? are passed
\* through in NORMAL mode whatever the pending operator.
C22_PassThrough ==
  (vim.mode = "NORMAL" /\ NoPrefix(vim)) =>
    /\ vim.pendingOperator = "" =>
         \A key \in HistoryKeys : C22_Yielded(vim, buf, settings, key)
    /\ \A key \in SearchKeys : C22_Yielded(vim, buf, settings, key)

\* C22 witness: after some keys, a readline-style controller in NORMAL mode on
\* the middle line of a text leaves j to the host, where the editor style
\* would have moved the cursor
C22_Witness ==
  /\ steps > 0
  /\ settings.vimModeStyle = "bash-vim"
  /\ vim.mode = "NORMAL" /\ vim.pendingOperator = "" /\ NoPrefix(vim)
  /\ ~handleInput(vim, buf, settings, KeyChar("j")).handled
  /\ handleInput(vim, buf, DefaultSettings, KeyChar("j")).buf.cursorRow # buf.cursorRow

\* each arrow key with the letter it stands for
ArrowLetters ==
  { <<KeyNamed("left", <<ESC, "[", "D">>), KeyChar("h")>>,
    <<KeyNamed("down", <<ESC, "[", "B">>), KeyChar("j")>>,
    <<KeyNamed("up", <<ESC, "[", "A">>), KeyChar("k")>>,
    <<KeyNamed("right", <<ESC, "[", "C">>), KeyChar("l")>> }

\* C23: in NORMAL, VISUAL and VISUAL_LINE mode (no short-circuit prefix
\* pending), in every controller state and style, an arrow key gives the same
\* handled result and the same controller and buffer state as its letter
\* h, j, k, l.
C23_ArrowsAsLetters ==
  (vim.mode \in {"NORMAL", "VISUAL", "VISUAL_LINE"} /\ NoPrefix(vim)) =>
    \A p \in ArrowLetters :
      handleInput(vim, buf, settings, p[1]) = handleInput(vim, buf, settings, p[2])

(***************************************************************************)
(* Claims about the visual selection                                       *)
(***************************************************************************)
\* The selection read off the text itself: the text is the lines joined by
\* newlines, a position is an offset into it, and the selection is every
\* character from the earlier of anchor and cursor up to and including the one
\* at the later; a position behind the last character of its line holds no
\* character.
offsetOf(lines, row, col) ==
  sumLens(lines, 0, row - 1) + Min(col, cpLen(LineAt(lines, row)))

selectionEnd(b) ==
  LET r == selectionRange(b)
  IN  IF r.endCol < cpLen(LineAt(b.lines, r.endRow))
      THEN offsetOf(b.lines, r.endRow, r.endCol) + 1
      ELSE offsetOf(b.lines, r.endRow, r.endCol)

selectionStart(b) ==
  LET r == selectionRange(b) IN offsetOf(b.lines, r.startRow, r.startCol)

selectedText(b) == SubSeq(joinLines(b.lines), selectionStart(b) + 1, selectionEnd(b))

withoutSelection(b) ==
  LET flat == joinLines(b.lines)
  IN  splitLines(SubSeq(flat, 1, selectionStart(b))
                   \o SubSeq(flat, selectionEnd(b) + 1, Len(flat)),
                 << >>)

\* anchor and cursor are both positions of the text
SelectionInText(b) ==
  /\ b.selectionAnchor # << >>
  /\ b.selectionAnchor[1] < Len(b.lines)
  /\ b.selectionAnchor[2] <= cpLen(LineAt(b.lines, b.selectionAnchor[1]))
  /\ ValidCursor(b)

yankDeletePaste(b) ==
  handleVimAction(
    handleVimAction(
      handleVimAction(b, Action("vim_yank_selection", NoPayload)),
      Counted("vim_delete_char", 1)),
    Action("vim_paste", Payload(1, "", << >>, "before", "")))

\* C25: for every buffer and every selection (anchor, cursor), yanking the
\* selection, deleting it and pasting before the resulting cursor gives back
\* the original lines.
C25_YankDeletePaste ==
  SelectionInText(buf) => yankDeletePaste(buf).lines = buf.lines

(***************************************************************************)
(* Claims about vertical motion                                            *)
(***************************************************************************)
\* vim_move_down(1) and then vim_move_up(1)
downThenUp(b) ==
  handleVimAction(handleVimAction(b, Counted("vim_move_down", 1)),
                  Counted("vim_move_up", 1))

lastCol(b) == Max(0, cpLen(LineAt(b.lines, b.cursorRow)) - 1)

requestedCol(b) == IF b.preferredCol = -1 THEN b.cursorCol ELSE b.preferredCol

C27_SeesEarlierKeys ==
  \A key \in RenderKeys :
    handleInputSeen(seen, vim, buf, settings, key) = handleInput(vim, buf, settings, key)

(***************************************************************************)
(* Claims about the short-circuit prefixes                                 *)
(***************************************************************************)
Modes == {"NORMAL", "INSERT", "VISUAL", "VISUAL_LINE", "COMMAND"}
CtrlX == KeyCtrl("x", <<"U+0018">>)
CtrlE == KeyCtrl("e", <<"U+0005">>)
SomeFind == [char |-> << >>, direction |-> "backward", type |-> "exclusive"]

\* the controller state in each mode, and with the later prefixes set too
C28_InAnyMode(v) ==
  { [v EXCEPT !.mode = m] : m \in Modes }
  \cup { [v EXCEPT !.pendingFind = f, !.pendingChord = c] :
           f \in {v.pendingFind, SomeFind}, c \in {v.pendingChord, "ctrl+x"} }

\* one key of each kind
KeyKinds ==
  { EscapeKey, EnterKey, CtrlX, CtrlE, KeyNamed("left", <<ESC, "[", "D">>),
    KeyChar("2"), KeyChar("d"), KeyChar("r"), KeyChar(":"), KeyChar("z") }

\* C28: the prefixes are checked before the mode, pendingReplace first, then
\* pendingFind, then the pending chord, then Ctrl+X.  With pendingReplace set
\* the next key, whatever it is and in whatever mode, is given to
\* vim_replace_char, clears the flag, sets lastCommand to {r, 1} and is
\* handled; with pendingFind set (and no pendingReplace) the next key is the
\* find target and clears the flag; a pending chord takes a Ctrl+X before it
\* can start a new chord.
C28_PrefixOrder ==
  /\ vim.pendingReplace =>
       \A w \in C28_InAnyMode(vim) : \A key \in KeyKinds :
         Bind(handleInput(w, buf, settings, key), LAMBDA r :
           /\ r.handled /\ ~r.editor /\ r.submitted = << >>
           /\ r.vim = [w EXCEPT !.pendingReplace = FALSE, !.count = 0,
                                !.lastCommand = [type |-> "r", count |-> 1]]
           /\ r.buf = handleVimAction(buf, Action("vim_replace_char",
                                        Payload(1, "", key.sequence, "", ""))))
  /\ (~vim.pendingReplace /\ vim.pendingFind # NoFind) =>
       \A w \in C28_InAnyMode(vim) : \A key \in KeyKinds :
         Bind(handleInput(w, buf, settings, key), LAMBDA r :
           /\ r.handled /\ ~r.editor /\ r.submitted = << >>
           /\ r.vim = [w EXCEPT !.pendingFind = NoFind, !.count = 0,
                                !.lastFind = [char |-> key.sequence,
                                              direction |-> w.pendingFind.direction,
                                              type |-> w.pendingFind.type]]
           /\ r.buf = handleVimAction(buf, Action("vim_find_char",
                                        Payload(1, "", key.sequence,
                                                w.pendingFind.direction,
                                                w.pendingFind.type))))
  /\ (~vim.pendingReplace /\ vim.pendingFind = NoFind /\ vim.pendingChord = "ctrl+x") =>
       \A m \in Modes :
         Bind(handleInput([vim EXCEPT !.mode = m], buf, settings, CtrlX), LAMBDA r :
           r.handled /\ r.vim.pendingChord = "" /\ r.buf = buf)

\* C28 witness: a key was taken as the replacement character
C28_Witness ==
  /\ vim.lastCommand = [type |-> "r", count |-> 1]
  /\ ~vim.pendingReplace
  /\ out.handled
  /\ \E i \in 1..Len(buf.lines) : \E j \in 1..Len(buf.lines[i]) : buf.lines[i][j] = "z"

\* ------------------------------------------------------------------------
\* Claims about the Ctrl+X chord
\* ------------------------------------------------------------------------

\* the controller state v after a Ctrl+X that armed the chord
armed(v) == [v EXCEPT !.pendingChord = "ctrl+x"]

\* Ctrl+X in state v is swallowed and arms the chord
C29_Arms(v) ==
  Bind(handleInput(v, buf, settings, CtrlX), LAMBDA r :
    r.handled /\ ~r.editor /\ r.buf = buf /\ r.vim = armed(v))

\* the one key after the arming: the editor is opened exactly for Ctrl+E, the
\* key is swallowed, the text is untouched and the chord is over
C29_NextKey(v) ==
  \A key \in KeyKinds \cup CtrlKeys :
    Bind(handleInput(armed(v), buf, settings, key), LAMBDA r :
      /\ r.editor <=> (key = CtrlE)
      /\ r.handled /\ r.buf = buf /\ r.submitted = << >>
      /\ r.vim.pendingChord = "")

\* C29 as stated: in every mode and every state, Ctrl+X is swallowed and arms
\* the chord, and the one key after it opens the editor exactly when it is
\* Ctrl+E, is swallowed and ends the chord.
C29_ChordAlways ==
  \A m \in Modes :
    C29_Arms([vim EXCEPT !.mode = m]) /\ C29_NextKey([vim EXCEPT !.mode = m])

\* with no replace, find or chord pending, Ctrl+X arms the chord in every mode
\* and the one key after it ends it
C29_ChordKeys ==
  NoPrefix(vim) =>
    \A m \in Modes :
      C29_Arms([vim EXCEPT !.mode = m]) /\ C29_NextKey([vim EXCEPT !.mode = m])

\* C29, amended: in every mode with no replace, find or chord pending, Ctrl+X
\* is swallowed and arms the chord; the one key after it opens the external
\* editor exactly when it is Ctrl+E, is swallowed without touching the text,
\* and ends the chord; a key opens the editor only when the chord was armed.
C29_Chord ==
  /\ [](C29_ChordKeys)
  /\ [][(steps' # steps /\ out'.editor)
          => (vim.pendingChord = "ctrl+x" /\ ~vim.pendingReplace
              /\ vim.pendingFind = NoFind)]_vars

\* C29 witness: Ctrl+X then Ctrl+E opened the editor and the chord is over
C29_Witness ==
  /\ out.editor /\ out.handled
  /\ vim.pendingChord = ""
  /\ steps >= 2

\* ------------------------------------------------------------------------
\* Claims about the count and the pending operator
\* ------------------------------------------------------------------------

\* the motions and single-key commands that complete a command
CompletingKeys ==
  { KeyChar(c) : c \in {"h", "l", "j", "k", "w", "0", "$", "x", "p", "u"} }

\* C30: in NORMAL and VISUAL mode, with or without a pending operator, every
\* recognised motion (h, l, j, k, w, 0, $) and single-key command (x, p, u)
\* leaves count = 0 and no pending operator; a 0 that continues a count is a
\* digit and not a command.
C30_CommandClears ==
  (vim.mode \in {"NORMAL", "VISUAL"} /\ NoPrefix(vim)) =>
    \A key \in CompletingKeys :
      (key = KeyChar("0") /\ vim.count > 0)
      \/ Bind(handleInput(vim, buf, settings, key), LAMBDA r :
            r.handled => (r.vim.count = 0 /\ r.vim.pendingOperator = ""))

\* ------------------------------------------------------------------------
\* Claims about the stored find
\* ------------------------------------------------------------------------

\* the character occurs on the cursor's line, after the cursor for a forward
\* find and before it for a backward one
findsTarget(b, char, direction) ==
  LET line == b.lines[b.cursorRow + 1]
  IN  \E i \in 0..(Len(line) - 1) :
        /\ <<line[i + 1]>> = char
        /\ IF direction = "forward" THEN i > b.cursorCol ELSE i < b.cursorCol

\* C31: lastFind changes only when the key is the target of a pending find
\* that finds its character; every other key, of any kind, retains it.
C31_LastFindKept ==
  [][vim'.lastFind # vim.lastFind =>
       /\ ~vim.pendingReplace /\ vim.pendingFind # NoFind
       /\ findsTarget(buf, vim'.lastFind.char, vim.pendingFind.direction)]_vars

\* ------------------------------------------------------------------------
\* Claims about COMMAND mode
\* ------------------------------------------------------------------------

CommandChars == {":", "/", "?"}
Styles == {"vim-editor", "bash-vim"}

\* the line of the cursor with the character c put in at the cursor
withTyped(b, c) ==
  [b.lines EXCEPT ![b.cursorRow + 1] =
     SubSeq(@, 1, b.cursorCol) \o <<c>> \o SubSeq(@, b.cursorCol + 1, Len(@))]

\* what the claim says of the key c typed in state v under settings s
C32_Entered(v, s, c) ==
  Bind(handleInput(v, buf, s, KeyChar(c)), LAMBDA r :
    IF s.vimModeStyle = "bash-vim" /\ c \in {"/", "?"}
    THEN ~r.handled /\ r.vim = v /\ r.buf = buf
    ELSE IF s.disableVimCommandMode
    THEN /\ r.handled /\ r.vim.mode = "INSERT" /\ r.vim.commandBuffer = << >>
         /\ r.buf.lines = withTyped(buf, c)
    ELSE /\ r.handled /\ r.vim.mode = "COMMAND" /\ r.vim.commandBuffer = <<c>>
         /\ r.buf = buf)

\* every combination of style and disableVimCommandMode
AllSettings ==
  { [settings EXCEPT !.vimModeStyle = st, !.disableVimCommandMode = dis] :
      st \in Styles, dis \in BOOLEAN }

\* C32 as stated: in every NORMAL-mode state, ':', '/' and '?' enter COMMAND
\* mode with that character as the command buffer, or are typed in INSERT
\* mode when command mode is disabled, or are passed through ('/' and '?' in
\* bash-vim style).
C32_CommandEntryAlways ==
  vim.mode = "NORMAL" =>
    \A s \in AllSettings : \A c \in CommandChars : C32_Entered(vim, s, c)

\* C32, amended: the same, in NORMAL mode with no replace, find or chord
\* pending.
C32_CommandEntry ==
  (vim.mode = "NORMAL" /\ NoPrefix(vim)) =>
    \A s \in AllSettings : \A c \in CommandChars : C32_Entered(vim, s, c)

\* C32 witness: with command mode disabled, ':' typed in NORMAL mode has
\* switched to INSERT mode and is in the text
C32_Witness ==
  /\ steps = 1
  /\ settings.disableVimCommandMode /\ vim.mode = "INSERT" /\ out.handled
  /\ vim.commandBuffer = << >>
  /\ \E i \in 1..Len(buf.lines) : \E j \in 1..Len(buf.lines[i]) :
        buf.lines[i][j] = ":"

BackspaceKey == KeyNamed("backspace", <<DEL>>)

\* the command buffer is kept exactly while the mode is COMMAND, and starts
\* with the character that entered the mode
C33_BufferShape ==
  /\ vim.mode = "COMMAND" =>
       (Len(vim.commandBuffer) >= 1 /\ vim.commandBuffer[1] \in CommandChars)
  /\ vim.mode # "COMMAND" => vim.commandBuffer = << >>

\* the state after a key that left COMMAND mode
backToNormal(v) == [v EXCEPT !.mode = "NORMAL", !.commandBuffer = << >>]

\* Backspace, Escape and Enter typed in the COMMAND-mode state v
C33_Keys(v) ==
  LET cmd == v.commandBuffer
      rest == SubSeq(cmd, 2, Len(cmd))
  IN  /\ Bind(handleInput(v, buf, settings, BackspaceKey), LAMBDA r :
            /\ r.handled /\ r.buf = buf
            /\ r.vim = IF Len(cmd) <= 1 THEN backToNormal(v)
                       ELSE [v EXCEPT !.commandBuffer = SubSeq(cmd, 1, Len(cmd) - 1)])
      /\ Bind(handleInput(v, buf, settings, EscapeKey), LAMBDA r :
            r.handled /\ r.buf = buf /\ r.vim = backToNormal(v))
      /\ Bind(handleInput(v, buf, settings, EnterKey), LAMBDA r :
            /\ r.handled /\ r.vim = backToNormal(v)
            /\ r.buf = IF cmd[1] \in {"/", "?"} /\ rest # << >>
                       THEN vim_search(buf, rest,
                                       IF cmd[1] = "/" THEN "forward" ELSE "backward")
                       ELSE buf)

\* C33 as stated: the shape of the command buffer in every reachable state,
\* and in every COMMAND-mode state Backspace removes the last character or
\* returns to NORMAL, Escape returns to NORMAL without a search, and Enter
\* returns to NORMAL and searches for the rest when it is not empty.
C33_CommandModeAlways ==
  C33_BufferShape /\ (vim.mode = "COMMAND" => C33_Keys(vim))

\* C33, amended: the same, the three keys being typed in COMMAND mode while
\* no Ctrl+X chord is pending.
C33_CommandMode ==
  C33_BufferShape /\ ((vim.mode = "COMMAND" /\ NoPrefix(vim)) => C33_Keys(vim))

\* C33 witness: a search typed in COMMAND mode and ended with Enter has moved
\* the cursor and left NORMAL mode with an empty command buffer
C33_Witness ==
  /\ vim.mode = "NORMAL" /\ vim.commandBuffer = << >>
  /\ buf.lastSearchQuery # << >>
  /\ out.handled

\* ------------------------------------------------------------------------
\* Claims about the reducer's motions, deletions and searches
\* ------------------------------------------------------------------------

\* the code point under the cursor of b
underCursor(b) == CharAt(LineAt(b.lines, b.cursorRow), b.cursorCol)

\* C34: from a cursor that is not on a combining mark, move_right with any
\* count leaves the cursor on a code point that is not a combining mark.
C34_NeverOnMark ==
  (ValidCursor(buf) /\ ~isCombiningMark(underCursor(buf))) =>
    \A n \in Counts : ~isCombiningMark(underCursor(vim_move_right(buf, n)))

\* the single empty line with the cursor at its start
isCleared(r) == r.lines = << << >> >> /\ r.cursorRow = 0 /\ r.cursorCol = 0

\* the lines of b without the k lines that start at the cursor row
withoutLines(b, k) ==
  SubSeq(b.lines, 1, b.cursorRow)
  \o SubSeq(b.lines, b.cursorRow + k + 1, Len(b.lines))

\* the lines from the cursor row to the end of the buffer
linesRemaining(b) == Len(b.lines) - b.cursorRow

\* the counts tried: the small ones and the whole buffer
C35_Counts == Counts \cup {Len(buf.lines)}

\* delete_line(n) removed min(n, lines remaining) lines at the cursor row and
\* left the cursor at column 0 of a row of the text
removedLines(b, n, r) ==
  /\ r.lines = withoutLines(b, Min(n, linesRemaining(b)))
  /\ r.cursorCol = 0
  /\ r.cursorRow = Min(b.cursorRow, Len(r.lines) - 1)

occursAt(line, query, col) ==
  /\ col + Len(query) <= Len(line)
  /\ SubSeq(line, col + 1, col + Len(query)) = query

\* the positions of the text where the query occurs
occurrences(b, query) ==
  UNION { { <<row, col>> : col \in { k \in 0..(Len(b.lines[row + 1]) - 1) :
                                       occursAt(b.lines[row + 1], query, k) } } :
          row \in 0..(Len(b.lines) - 1) }

\* position p comes before position q in reading order
before(p, q) == p[1] < q[1] \/ (p[1] = q[1] /\ p[2] < q[2])

\* p is met before q by a scan that leaves the cursor c in direction dir and
\* wraps around the end of the buffer
nearer(c, dir, p, q) ==
  IF dir = "forward"
  THEN IF before(c, p) = before(c, q) THEN before(p, q) ELSE before(c, p)
  ELSE IF before(p, c) = before(q, c) THEN before(q, p) ELSE before(p, c)

\* what the claim says of search(query, dir) in buffer b
C36_Found(b, query, dir) ==
  LET c == <<b.cursorRow, b.cursorCol>>
      others == occurrences(b, query) \ {c}
      r == vim_search(b, query, dir)
  IN  /\ r.lastSearchQuery = query
      /\ r.lines = b.lines
      /\ IF others = {}
         THEN r.cursorRow = b.cursorRow /\ r.cursorCol = b.cursorCol
         ELSE \E p \in others :
                /\ \A q \in others \ {p} : nearer(c, dir, p, q)
                /\ r.cursorRow = p[1] /\ r.cursorCol = p[2]

\* no line of the text holds a code point outside the basic plane
inBasicPlane(b) ==
  \A i \in 1..Len(b.lines) : \A j \in 1..Len(b.lines[i]) : b.lines[i][j] # Astral

\* C36: in a text of the basic plane, search(query, dir) with a non-empty
\* query moves the cursor to the nearest occurrence other than the cursor in
\* direction dir, crossing lines and wrapping around, leaves it in place
\* when there is no other occurrence, and stores the query; in both
\* directions and from every column.
C36_SearchNearest ==
  (ValidCursor(buf) /\ inBasicPlane(buf)) =>
    \A query \in Queries : \A dir \in Directions : C36_Found(buf, query, dir)

\* ------------------------------------------------------------------------
\* Claims about repeating a search
\* ------------------------------------------------------------------------

opposite(dir) == IF dir = "forward" THEN "backward" ELSE "forward"

\* a text in which every query occurs three times, the cursor in its middle
RepeatedText == BufferOf(<< <<"a", "x", "a", "x", "a", "x">> >>, 0, 2)

\* the search typed in the command buffer is run with Enter on buffer b, and
\* then the key k repeats it in direction dir
C37_Repeats(b, k, dir) ==
  Bind(handleInput(vim, b, settings, EnterKey), LAMBDA e :
    Bind(handleInput(e.vim, e.buf, settings, KeyChar(k)), LAMBDA r :
      r.handled /\ r.buf = vim_search_next(e.buf, dir)))

\* C37: when a search typed after '/' or '?' is run with Enter, a following n
\* repeats the query in the direction of that search and N in the opposite
\* direction.
C37_RepeatDirection ==
  (/\ vim.mode = "COMMAND" /\ NoPrefix(vim)
   /\ Len(vim.commandBuffer) > 1 /\ vim.commandBuffer[1] \in {"/", "?"}) =>
    LET dir == IF vim.commandBuffer[1] = "/" THEN "forward" ELSE "backward"
    IN  \A b \in {buf, RepeatedText} :
          /\ C37_Repeats(b, "n", dir)
          /\ C37_Repeats(b, "N", opposite(dir))

\* ------------------------------------------------------------------------
\* Claims about the draft outside history navigation
\* ------------------------------------------------------------------------

\* the call left h's draft alone: onChange was not called
draftUntouched(h, r) == r.emitted = h.emitted /\ r.currentQuery = h.currentQuery

\* C38: while not navigating (historyIndex = -1), goToIndex(-1), navigateDown
\* and a navigateUp that returns false never call onChange: the draft stays
\* as the user left it, whatever happened before and whatever the messages.
C38_DraftKept ==
  hist.historyIndex = -1 =>
    /\ draftUntouched(hist, goToIndex(hist, -1))
    /\ draftUntouched(hist, navigateDown(hist))
    /\ ~navigateUp(hist).returned => draftUntouched(hist, navigateUp(hist))

\* ------------------------------------------------------------------------
\* Claims about the pending inner-word flag
\* ------------------------------------------------------------------------

\* C39: in every reachable controller state, pendingInner is set only while
\* one of the operators d, c, y is pending.
C39_InnerNeedsOperator ==
  vim.pendingInner => vim.pendingOperator \in {"d", "c", "y"}

(***************************************************************************)
(* Agent-manager specification: loadAgent calls for two names by three     *)
(* callers, interleaved at their awaits, and sendMessage calls.            *)
(***************************************************************************)
InitAgents ==
  /\ buf = BufferOf(<< << >> >>, 0, 0)
  /\ vim = initialVimState
  /\ settings = DefaultSettings
  /\ out = NoOut
  /\ steps = 0
  /\ hist = NoHistory
  /\ conf = NoWaiters
  /\ seen = initialVimState
  /\ agents = initialManager

LoadAgent ==
  /\ \E p \in Callers : \E name \in AgentNames :
       /\ agents.calls[p].pc = "idle"
       /\ agents' = loadAgent(agents, p, name)
  /\ UNCHANGED <<buf, vim, settings, out, steps, hist, conf, seen>>

AgentCardArrives ==
  /\ \E p \in Callers :
       /\ agents.calls[p].pc = "fetching"
       /\ agents' = loadAgentResumed(agents, p)
  /\ UNCHANGED <<buf, vim, settings, out, steps, hist, conf, seen>>

AgentCardFails ==
  /\ \E p \in Callers :
       /\ agents.calls[p].pc = "fetching"
       /\ agents' = loadAgentRejected(agents, p)
  /\ UNCHANGED <<buf, vim, settings, out, steps, hist, conf, seen>>

SendMessage ==
  /\ \E name \in AgentNames : agents' = sendMessage(agents, name)
  /\ UNCHANGED <<buf, vim, settings, out, steps, hist, conf, seen>>

NextAgents == LoadAgent \/ AgentCardArrives \/ AgentCardFails \/ SendMessage

SpecAgents == InitAgents /\ [][NextAgents]_vars

\* ------------------------------------------------------------------------
\* Claims about the agent manager
\* ------------------------------------------------------------------------

\* the loadAgent calls for the name that returned a card
succeeded(name) ==
  { p \in Callers : agents.calls[p].pc = "returned" /\ agents.calls[p].name = name }

\* C40: under every interleaving of loadAgent calls, at most one call per
\* name returns a card; clients and agentCards have the same keys; and a
\* call whose agent-card fetch failed has cached nothing.
C40_OneLoadPerName ==
  /\ \A name \in AgentNames : Cardinality(succeeded(name)) <= 1
  /\ \A name \in AgentNames :
       (agents.clients[name] # "") <=> (agents.agentCards[name] # "")
  /\ \A p \in Callers :
       agents.calls[p].error = FetchFailed =>
         /\ agents.clients[agents.calls[p].name] # p
         /\ agents.agentCards[agents.calls[p].name] # p


====
